---- MODULE Spec2Model ----
(***************************************************************************)
(* Model of the GW-RePO provenance client (src/client.py) and of the       *)
(* storage API it submits to (src/api/main.py).                            *)
(*                                                                         *)
(* Texts are sequences of one-character strings, so that strip, split and  *)
(* the regular expression of duration_to_seconds are computed character by *)
(* character.  Python floats are modelled as exact decimals                *)
(* [m |-> mantissa, f |-> number of fractional digits], value m / 10^f.    *)
(***************************************************************************)
EXTENDS Integers, Sequences, FiniteSets, TLC

VARIABLES
    op,         \* harness: name of the pure function applied so far ("init" before)
    arg,        \* harness: the input the function is applied to
    res,        \* harness: the result of the application(s)
    pc,         \* submit: position of the driver in src/client.py submit
    env,        \* submit: the outside world of one run (log command, trace file, BCO document, filesystem)
    requests,   \* submit: the POST requests issued so far, with the status answered
    wfData,     \* submit: workflow_execution_data
    procData,   \* submit: process_execution_data
    fileInputs, \* submit: file_inputs
    fileOutputs,\* submit: file_outputs
    idx,        \* submit: index of the next entry of the loop the driver is in
    db          \* storage API: the tables of the relational store

vars == <<op, arg, res, pc, env, requests, wfData, procData, fileInputs, fileOutputs, idx, db>>

harnessVars == <<op, arg, res>>
submitVars == <<pc, env, requests, wfData, procData, fileInputs, fileOutputs, idx, db>>

----------------------------------------------------------------------------
(* Bounds *)

MaxDurLen == 4

MaxMemLen == 4

MaxTraceRows == 2

MaxLogRows == 3

MaxWalks == 2

MaxSubmitRows == 3

MaxSteps == 2

MaxApiCalls == 4

----------------------------------------------------------------------------
(* Python values *)

\* None where a number is expected
None == [none |-> TRUE]

\* None where a text is expected (texts are tuples of one-character strings)
NoneStr == <<"None">>

\* the outcome of a call that raised
Raised(e) == [raised |-> e]

IsRaised(v) == "raised" \in DOMAIN v

\* the outcome of a call that returned a list
Returned(list) == [value |-> list]

\* text literal: a TLA+ tuple of one-character strings
Digits == {"0", "1", "2", "3", "4", "5", "6", "7", "8", "9"}

DigitVal(c) ==
    CASE c = "0" -> 0 [] c = "1" -> 1 [] c = "2" -> 2 [] c = "3" -> 3 [] c = "4" -> 4
      [] c = "5" -> 5 [] c = "6" -> 6 [] c = "7" -> 7 [] c = "8" -> 8 [] c = "9" -> 9

Whitespace == {" ", "\t", "\n"}

RECURSIVE Pow10(_)
Pow10(n) == IF n = 0 THEN 1 ELSE 10 * Pow10(n - 1)

\* exact decimals standing for Python floats
Rat(m, f) == [m |-> m, f |-> f]

RECURSIVE RatNorm(_)
RatNorm(r) ==
    IF r.f > 0 /\ r.m % 10 = 0 THEN RatNorm(Rat(r.m \div 10, r.f - 1)) ELSE r

RatInt(n) == Rat(n, 0)

RatAdd(a, b) ==
    LET f == IF a.f >= b.f THEN a.f ELSE b.f
    IN  RatNorm(Rat(a.m * Pow10(f - a.f) + b.m * Pow10(f - b.f), f))

RatMul(k, a) == RatNorm(Rat(k * a.m, a.f))

\* str.strip(): whitespace removed at both ends
LStrip(s) ==
    IF \A i \in 1..Len(s) : s[i] \in Whitespace THEN <<>>
    ELSE SubSeq(s, CHOOSE i \in 1..Len(s) :
                       s[i] \notin Whitespace /\ \A j \in 1..(i - 1) : s[j] \in Whitespace,
                Len(s))

RStrip(s) ==
    IF \A i \in 1..Len(s) : s[i] \in Whitespace THEN <<>>
    ELSE SubSeq(s, 1, CHOOSE i \in 1..Len(s) :
                          s[i] \notin Whitespace /\ \A j \in (i + 1)..Len(s) : s[j] \in Whitespace)

Strip(s) == RStrip(LStrip(s))

\* all texts over an alphabet, of length at most n
RECURSIVE TextsUpTo(_, _)
TextsUpTo(alphabet, n) ==
    IF n = 0 THEN {<<>>}
    ELSE LET shorter == TextsUpTo(alphabet, n - 1)
         IN  shorter \cup {Append(t, c) : t \in shorter, c \in alphabet}

----------------------------------------------------------------------------
(* duration_to_seconds, src/client.py:18-33 *)

\* end of the longest run of digits starting at position p (p itself if none)
RECURSIVE DigitsEnd(_, _)
DigitsEnd(s, p) ==
    IF p <= Len(s) /\ s[p] \in Digits THEN DigitsEnd(s, p + 1) ELSE p

\* value of a numeral  \d+\.?\d*  as float() reads it
RECURSIVE NumeralRat(_, _, _, _)
NumeralRat(s, p, m, f) ==
    IF p > Len(s) THEN RatNorm(Rat(m, f))
    ELSE IF s[p] = "." THEN NumeralRat(s, p + 1, m, 0)
    ELSE NumeralRat(s, p + 1, 10 * m + DigitVal(s[p]), IF f < 0 THEN f ELSE f + 1)

PyFloatOfNumeral(s) ==
    LET dot == \E i \in 1..Len(s) : s[i] = "."
    IN  IF dot THEN NumeralRat(s, 1, 0, -1) ELSE RatNorm(Rat(NumeralRat(s, 1, 0, -1).m, 0))

\* (?:(\d+\.?\d*)X)? at position p: the position after the group and the
\* captured text, or the same position and no capture when the group is skipped
MatchGroup(s, p, letter) ==
    LET e1 == DigitsEnd(s, p)
        e2 == IF e1 <= Len(s) /\ s[e1] = "." THEN e1 + 1 ELSE e1
        e3 == DigitsEnd(s, e2)
    IN  IF e1 > p /\ e3 <= Len(s) /\ s[e3] = letter
        THEN [next |-> e3 + 1, group |-> SubSeq(s, p, e3 - 1)]
        ELSE [next |-> p, group |-> NoneStr]

\* \s* at position p
RECURSIVE SkipSpaces(_, _)
SkipSpaces(s, p) ==
    IF p <= Len(s) /\ s[p] \in Whitespace THEN SkipSpaces(s, p + 1) ELSE p

\* the match object None (a successful match is the tuple of its four groups)
NoMatch == <<>>

\* pattern.match(text) in place of fullmatch: a matching prefix is enough
DurationFullMatch_prefix(s) ==
    LET gd == MatchGroup(s, 1, "d")
        gh == MatchGroup(s, SkipSpaces(s, gd.next), "h")
        gm == MatchGroup(s, SkipSpaces(s, gh.next), "m")
        gs == MatchGroup(s, SkipSpaces(s, gm.next), "s")
    IN  <<gd.group, gh.group, gm.group, gs.group>>

\* pattern.fullmatch(text): the four captured groups, or no match
DurationFullMatch(s) ==
    LET gd == MatchGroup(s, 1, "d")
        gh == MatchGroup(s, SkipSpaces(s, gd.next), "h")
        gm == MatchGroup(s, SkipSpaces(s, gh.next), "m")
        gs == MatchGroup(s, SkipSpaces(s, gm.next), "s")
    IN  IF gs.next = Len(s) + 1
        THEN <<gd.group, gh.group, gm.group, gs.group>>
        ELSE NoMatch

GroupValue(g) == IF g = NoneStr THEN RatInt(0) ELSE PyFloatOfNumeral(g)

duration_to_seconds(duration) ==
    IF duration = <<"-">> THEN RatInt(0)
    ELSE IF duration = NoneStr THEN Raised("AttributeError")
    ELSE LET match == DurationFullMatch(Strip(duration))
         IN  IF match = NoMatch THEN Raised("ValueError")
             ELSE RatAdd(RatAdd(RatMul(86400, GroupValue(match[1])),
                                RatMul(3600, GroupValue(match[2]))),
                         RatAdd(RatMul(60, GroupValue(match[3])),
                                GroupValue(match[4])))

----------------------------------------------------------------------------
(* Harness for duration_to_seconds *)

DurationAlphabet == {"1", "d", "h", "m", "s", "x", " ", "."}

DurationSamples ==
    { <<"-">>,
      <<"1", "d", "2", "h", "3", "m", "4", "s">>,
      <<"1", "h", " ", "3", "0", "m">>,
      <<"5", "0", "0", "m", "s">>,
      <<"2", "h", "1", "d">>,
      <<"1", ".", "5", "h">>,
      <<"4", "2">>,
      <<" ", "9", "s", " ">> }

DurationTexts == TextsUpTo(DurationAlphabet, MaxDurLen) \cup DurationSamples

InitIdleSubmit ==
    /\ pc = "idle"
    /\ env = <<>>
    /\ requests = <<>>
    /\ wfData = None
    /\ procData = <<>>
    /\ fileInputs = <<>>
    /\ fileOutputs = <<>>
    /\ idx = 0
    /\ db = <<>>

InitDuration ==
    /\ op = "init"
    /\ arg \in DurationTexts
    /\ res = None
    /\ InitIdleSubmit

ApplyDuration ==
    /\ op = "init"
    /\ op' = "duration_to_seconds"
    /\ res' = duration_to_seconds(arg)
    /\ UNCHANGED <<arg, submitVars>>

NextDuration == ApplyDuration

SpecDuration == InitDuration /\ [][NextDuration]_vars

----------------------------------------------------------------------------
(* C7 *)

IsNumeralText(t) ==
    /\ t # <<>>
    /\ t[1] \in Digits
    /\ \A i \in 1..Len(t) : t[i] \in Digits \cup {"."}
    /\ Cardinality({i \in 1..Len(t) : t[i] = "."}) <= 1

\* the decimal a numeral denotes: its digits weighted by their place
NumeralDenotes(t) ==
    LET dots == {i \in 1..Len(t) : t[i] = "."}
        dot == IF dots = {} THEN Len(t) + 1 ELSE CHOOSE i \in dots : TRUE
        place(i) == IF i < dot THEN Len(t) - i - (IF dots = {} THEN 0 ELSE 1) ELSE Len(t) - i
        RECURSIVE sum(_)
        sum(i) == IF i = 0 THEN 0
                  ELSE sum(i - 1) + (IF i = dot THEN 0 ELSE DigitVal(t[i]) * Pow10(place(i)))
    IN  RatNorm(Rat(sum(Len(t)), IF dots = {} THEN 0 ELSE Len(t) - dot))

\* a segment is blank, or one group "<numeral><letter>" with blanks around it
SegmentOK(seg, letter) ==
    LET g == Strip(seg)
    IN  \/ g = <<>>
        \/ /\ g[Len(g)] = letter
           /\ IsNumeralText(SubSeq(g, 1, Len(g) - 1))

SegmentDenotes(seg) ==
    LET g == Strip(seg)
    IN  IF g = <<>> THEN RatInt(0) ELSE NumeralDenotes(SubSeq(g, 1, Len(g) - 1))

\* the ways of cutting a text into a d, an h, an m and an s segment
DurationCuts(t) ==
    { c \in (0..Len(t)) \X (0..Len(t)) \X (0..Len(t)) :
        /\ c[1] <= c[2] /\ c[2] <= c[3]
        /\ SegmentOK(SubSeq(t, 1, c[1]), "d")
        /\ SegmentOK(SubSeq(t, c[1] + 1, c[2]), "h")
        /\ SegmentOK(SubSeq(t, c[2] + 1, c[3]), "m")
        /\ SegmentOK(SubSeq(t, c[3] + 1, Len(t)), "s") }

CutDenotes(t, c) ==
    RatAdd(RatAdd(RatMul(86400, SegmentDenotes(SubSeq(t, 1, c[1]))),
                  RatMul(3600, SegmentDenotes(SubSeq(t, c[1] + 1, c[2])))),
           RatAdd(RatMul(60, SegmentDenotes(SubSeq(t, c[2] + 1, c[3]))),
                  SegmentDenotes(SubSeq(t, c[3] + 1, Len(t)))))

\* C7: a text made of the groups Dd, Hh, Mm, Ss (any subset, in that order)
\* converts to 86400*D + 3600*H + 60*M + S, the sentinel "-" and the empty
\* text convert to 0, and every other text raises the format error.
C7_DurationShape ==
    op = "duration_to_seconds" =>
        /\ arg \in {<<"-">>, <<>>} => res = RatInt(0)
        /\ \A c \in DurationCuts(arg) : res = CutDenotes(arg, c)
        /\ (DurationCuts(arg) = {} /\ arg # <<"-">>) => res = Raised("ValueError")

C7_Witness ==
    /\ op = "duration_to_seconds"
    /\ arg = <<"1", "d", "2", "h", "3", "m", "4", "s">>
    /\ res = RatInt(93784)

----------------------------------------------------------------------------
(* parse_memory_value, src/client.py:114-125 *)

\* str.split(): the maximal runs of non-whitespace characters
RECURSIVE SplitWords(_, _, _)
SplitWords(s, p, word) ==
    IF p > Len(s) THEN (IF word = <<>> THEN <<>> ELSE <<word>>)
    ELSE IF s[p] \in Whitespace
         THEN (IF word = <<>> THEN <<>> ELSE <<word>>) \o SplitWords(s, p + 1, <<>>)
         ELSE SplitWords(s, p + 1, Append(word, s[p]))

Split(s) == SplitWords(s, 1, <<>>)

\* float(text) on texts of signs, digits and dots; whitespace around is ignored
PyFloat(text) ==
    LET t == Strip(text)
        signed == t # <<>> /\ t[1] \in {"-", "+"}
        body == IF signed THEN SubSeq(t, 2, Len(t)) ELSE t
        wellFormed ==
            /\ \A i \in 1..Len(body) : body[i] \in Digits \cup {"."}
            /\ \E i \in 1..Len(body) : body[i] \in Digits
            /\ Cardinality({i \in 1..Len(body) : body[i] = "."}) <= 1
        magnitude == PyFloatOfNumeral(body)
    IN  IF ~wellFormed THEN Raised("ValueError")
        ELSE IF signed /\ t[1] = "-" THEN Rat(0 - magnitude.m, magnitude.f)
        ELSE magnitude

\* str.upper() on the letters that occur in units
UpperChar(c) ==
    CASE c = "k" -> "K" [] c = "m" -> "M" [] c = "g" -> "G" [] c = "t" -> "T"
      [] c = "b" -> "B" [] c = "x" -> "X" [] OTHER -> c

Upper(s) == [i \in 1..Len(s) |-> UpperChar(s[i])]

RatTimes(a, b) == RatNorm(Rat(a.m * b.m, a.f + b.f))

\* 1/1024 = 0.0009765625
KBFactor == Rat(9765625, 10)

\* conversion_factors.get(unit, 1)
ConversionFactor(unit) ==
    CASE unit = <<"K", "B">> -> KBFactor
      [] unit = <<"M", "B">> -> RatInt(1)
      [] unit = <<"G", "B">> -> RatInt(1024)
      [] unit = <<"T", "B">> -> RatInt(1024 * 1024)
      [] OTHER -> RatInt(1)

parse_memory_value(value) ==
    IF value = <<"-">> \/ value = NoneStr \/ value = <<>> THEN None
    ELSE LET words == Split(value)
         IN  IF Len(words) # 2 THEN None                   \* unpacking raises, caught
             ELSE LET num == PyFloat(words[1])
                      unit == Upper(words[2])
                  IN  IF IsRaised(num) THEN None           \* float() raises, caught
                      ELSE RatTimes(num, ConversionFactor(unit))

----------------------------------------------------------------------------
(* Harness for parse_memory_value *)

MemoryAlphabet == {"1", "2", ".", " ", "K", "k", "M", "G", "T", "B", "b", "-"}

MemorySamples ==
    { NoneStr,
      <<"5", "1", "2", " ", "M", "B">>,
      <<"1", " ", "G", "B">>,
      <<"b", "o", "g", "u", "s">>,
      <<"1", ".", "5", " ", "g", "b">>,
      <<"5", "1", "2", "M", "B">> }

MemoryTexts == TextsUpTo(MemoryAlphabet, MaxMemLen) \cup MemorySamples

InitMemory ==
    /\ op = "init"
    /\ arg \in MemoryTexts
    /\ res = None
    /\ InitIdleSubmit

ApplyMemory ==
    /\ op = "init"
    /\ op' = "parse_memory_value"
    /\ res' = parse_memory_value(arg)
    /\ UNCHANGED <<arg, submitVars>>

NextMemory == ApplyMemory

SpecMemory == InitMemory /\ [][NextMemory]_vars

----------------------------------------------------------------------------
(* C8 *)

MemoryUnits == {<<"K", "B">>, <<"M", "B">>, <<"G", "B">>, <<"T", "B">>}

UnitMegabytes(unit) ==
    CASE unit = <<"K", "B">> -> KBFactor
      [] unit = <<"M", "B">> -> RatInt(1)
      [] unit = <<"G", "B">> -> RatInt(1024)
      [] unit = <<"T", "B">> -> RatInt(1024 * 1024)

\* the texts "<number> <unit>": a number, whitespace, one of the four units
IsNumberUnit(t) ==
    /\ t # NoneStr
    /\ Len(Split(t)) = 2
    /\ ~IsRaised(PyFloat(Split(t)[1]))
    /\ Upper(Split(t)[2]) \in MemoryUnits

\* C8: parse_memory_value never raises; "<number> <unit>" with unit KB, MB,
\* GB or TB in any letter case gives number times 1/1024, 1, 1024, 1024*1024;
\* every other input ("-", the empty text, None, anything else) gives None.
C8_MemoryLenient ==
    op = "parse_memory_value" =>
        /\ ~IsRaised(res)
        /\ IsNumberUnit(arg) =>
              res = RatTimes(PyFloat(Split(arg)[1]), UnitMegabytes(Upper(Split(arg)[2])))
        /\ ~IsNumberUnit(arg) => res = None

\* the part of C8 the code keeps: no input raises, the four units convert,
\* and the sentinel, the empty text, None and texts that are not two words
\* with a number first give None
C8_MemoryKnownUnits ==
    op = "parse_memory_value" =>
        /\ ~IsRaised(res)
        /\ IsNumberUnit(arg) =>
              res = RatTimes(PyFloat(Split(arg)[1]), UnitMegabytes(Upper(Split(arg)[2])))
        /\ (arg \in {<<"-">>, <<>>, NoneStr} \/ Len(Split(arg)) # 2) => res = None

C8_UnknownUnitReached ==
    /\ op = "parse_memory_value"
    /\ arg = <<"1", " ", "B">>
    /\ res = RatInt(1)

----------------------------------------------------------------------------
(* Tab-separated tables: str.split("\t"), dict(zip(headers, cells)) *)

\* str.split(sep) for a one-character separator: every separator cuts, empty
\* pieces are kept
RECURSIVE SplitOn(_, _)
SplitOn(s, sep) ==
    LET cuts == {i \in 1..Len(s) : s[i] = sep}
    IN  IF cuts = {} THEN <<s>>
        ELSE LET first == CHOOSE i \in cuts : \A j \in cuts : i <= j
             IN  <<SubSeq(s, 1, first - 1)>> \o SplitOn(SubSeq(s, first + 1, Len(s)), sep)

\* "\t".join(cells)
RECURSIVE JoinTab(_)
JoinTab(cells) ==
    IF cells = <<>> THEN <<>>
    ELSE IF Len(cells) = 1 THEN cells[1]
    ELSE cells[1] \o <<"\t">> \o JoinTab(Tail(cells))

Min(a, b) == IF a <= b THEN a ELSE b

\* dict(zip(headers, cells)): pairs up to the shorter length, a later pair
\* with the same key replaces an earlier one
DictZip(headers, cells) ==
    LET n == Min(Len(headers), Len(cells))
    IN  [k \in {headers[i] : i \in 1..n} |->
            cells[CHOOSE i \in 1..n :
                    /\ headers[i] = k
                    /\ \A j \in 1..n : headers[j] = k => j <= i]]

\* dict.get(key, default); dict.get(key) is DictGet(d, key, NoneStr)
DictGet(d, key, default) == IF key \in DOMAIN d THEN d[key] ELSE default

\* str.rstrip(chars)
RECURSIVE RStripChars(_, _)
RStripChars(s, chars) ==
    IF s # <<>> /\ s[Len(s)] \in chars THEN RStripChars(SubSeq(s, 1, Len(s) - 1), chars) ELSE s

\* int(text) on texts of signs and digits; whitespace around is ignored
PyInt(text) ==
    IF text = NoneStr THEN Raised("TypeError")
    ELSE LET t == Strip(text)
             signed == t # <<>> /\ t[1] \in {"-", "+"}
             body == IF signed THEN SubSeq(t, 2, Len(t)) ELSE t
         IN  IF body = <<>> \/ \E i \in 1..Len(body) : body[i] \notin Digits
             THEN Raised("ValueError")
             ELSE IF signed /\ t[1] = "-" THEN RatInt(0 - PyFloatOfNumeral(body).m)
             ELSE RatInt(PyFloatOfNumeral(body).m)

\* datetime.strptime(text, format).timestamp(); fractional is TRUE for the
\* format "%Y-%m-%d %H:%M:%S.%f" and FALSE for "%Y-%m-%d %H:%M:%S".  The epoch
\* value is kept symbolic: the float the text denotes.
Strptime(text, fractional) ==
    LET digitAt(i) == i <= Len(text) /\ text[i] \in Digits
        charAt(i, c) == i <= Len(text) /\ text[i] = c
        base == /\ \A i \in {1, 2, 3, 4, 6, 7, 9, 10, 12, 13, 15, 16, 18, 19} : digitAt(i)
                /\ charAt(5, "-") /\ charAt(8, "-") /\ charAt(11, " ")
                /\ charAt(14, ":") /\ charAt(17, ":")
        tail == IF fractional
                THEN /\ charAt(20, ".")
                     /\ Len(text) \in 21..26
                     /\ \A i \in 21..Len(text) : digitAt(i)
                ELSE Len(text) = 19
    IN  IF base /\ tail THEN [timestamp |-> text] ELSE Raised("ValueError")

----------------------------------------------------------------------------
(* get_process_execution_data, src/client.py:77-112 *)

K_hash == <<"h", "a", "s", "h">>
K_process == <<"p", "r", "o", "c", "e", "s", "s">>
K_module == <<"m", "o", "d", "u", "l", "e">>
K_container == <<"c", "o", "n", "t", "a", "i", "n", "e", "r">>
K_status == <<"s", "t", "a", "t", "u", "s">>
K_exit == <<"e", "x", "i", "t">>
K_start == <<"s", "t", "a", "r", "t">>
K_duration == <<"d", "u", "r", "a", "t", "i", "o", "n">>
K_cpus == <<"c", "p", "u", "s">>
K_time == <<"t", "i", "m", "e">>
K_disk == <<"d", "i", "s", "k">>
K_memory == <<"m", "e", "m", "o", "r", "y">>
K_realtime == <<"r", "e", "a", "l", "t", "i", "m", "e">>
K_queue == <<"q", "u", "e", "u", "e">>
K_pct_cpu == <<"%", "c", "p", "u">>
K_pct_mem == <<"%", "m", "e", "m">>
K_peak_rss == <<"p", "e", "a", "k", "_", "r", "s", "s">>
K_peak_vmem == <<"p", "e", "a", "k", "_", "v", "m", "e", "m">>
K_rchar == <<"r", "c", "h", "a", "r">>
K_wchar == <<"w", "c", "h", "a", "r">>

\* float(item.get(key, default).rstrip(chars))
FloatOfStripped(value, chars) ==
    IF value = NoneStr THEN Raised("AttributeError")
    ELSE PyFloat(RStripChars(value, chars))

\* the fields of one record that are converted, in the order the code
\* evaluates them
ConvertedFields(item) ==
    [ exit_code |-> PyInt(DictGet(item, K_exit, NoneStr)),
      start_time |-> IF K_start \in DOMAIN item THEN Strptime(item[K_start], TRUE)
                     ELSE Raised("KeyError"),
      duration |-> duration_to_seconds(DictGet(item, K_duration, NoneStr)),
      cpus_requested |-> PyInt(DictGet(item, K_cpus, NoneStr)),
      time_requested |-> duration_to_seconds(DictGet(item, K_time, <<"0", "s">>)),
      storage_requested |-> parse_memory_value(DictGet(item, K_disk, <<"0", " ", "M", "B">>)),
      memory_requested |-> parse_memory_value(DictGet(item, K_memory, <<"0", " ", "M", "B">>)),
      realtime |-> FloatOfStripped(DictGet(item, K_realtime, <<"0", "s">>), {"s"}),
      percent_cpu |-> FloatOfStripped(DictGet(item, K_pct_cpu, NoneStr), {"%"}),
      percent_memory |-> FloatOfStripped(DictGet(item, K_pct_mem, NoneStr), {"%"}),
      peak_rss |-> parse_memory_value(DictGet(item, K_peak_rss, NoneStr)),
      peak_vmem |-> parse_memory_value(DictGet(item, K_peak_vmem, NoneStr)),
      read_char |-> parse_memory_value(DictGet(item, K_rchar, NoneStr)),
      write_char |-> parse_memory_value(DictGet(item, K_wchar, NoneStr)) ]

ConversionOrder ==
    << "exit_code", "start_time", "duration", "cpus_requested", "time_requested",
       "storage_requested", "memory_requested", "realtime", "percent_cpu",
       "percent_memory", "peak_rss", "peak_vmem", "read_char", "write_char" >>

\* the exception of the first conversion that raises, if any
FirstRaised(conv) ==
    LET failing == {i \in 1..Len(ConversionOrder) : IsRaised(conv[ConversionOrder[i]])}
    IN  IF failing = {} THEN None
        ELSE conv[ConversionOrder[CHOOSE i \in failing : \A j \in failing : i <= j]]

\* the dictionary appended for one row, given its converted fields
RecordOf(item, workflow_id, conv) ==
    [ id |-> DictGet(item, K_hash, NoneStr),
      workflow_execution_id |-> workflow_id,
      process_name |-> DictGet(item, K_process, NoneStr),
      module_name |-> DictGet(item, K_module, NoneStr),
      container_name |-> DictGet(item, K_container, NoneStr),
      final_status |-> DictGet(item, K_status, NoneStr),
      exit_code |-> conv.exit_code,
      start_time |-> conv.start_time,
      duration |-> conv.duration,
      cpus_requested |-> conv.cpus_requested,
      time_requested |-> conv.time_requested,
      storage_requested |-> conv.storage_requested,
      memory_requested |-> conv.memory_requested,
      realtime |-> conv.realtime,
      queue_name |-> DictGet(item, K_queue, NoneStr),
      percent_cpu |-> conv.percent_cpu,
      percent_memory |-> conv.percent_memory,
      peak_rss |-> conv.peak_rss,
      peak_vmem |-> conv.peak_vmem,
      read_char |-> conv.read_char,
      write_char |-> conv.write_char ]

RecordOrRaised(item, workflow_id, conv, raised) ==
    IF raised # None THEN raised ELSE RecordOf(item, workflow_id, conv)

RecordFromConverted(item, workflow_id, conv) ==
    RecordOrRaised(item, workflow_id, conv, FirstRaised(conv))

\* the dictionary built for one row, or the exception of the first conversion
\* that raises
ProcessRecord(item, workflow_id) ==
    RecordFromConverted(item, workflow_id, ConvertedFields(item))

\* the loop of lines 88-111: the records of the rows in order; an exception
\* raised for a row leaves the function
RECURSIVE AppendRecords(_, _, _, _)
RECURSIVE AppendRecord(_, _, _, _, _)
AppendRecords(data, i, workflow_id, acc) ==
    IF i > Len(data) THEN Returned(acc)
    ELSE AppendRecord(data, i, workflow_id, acc, ProcessRecord(data[i], workflow_id))

\* process_execution_data.append(...) for row i, or the exception it raised
AppendRecord(data, i, workflow_id, acc, rec) ==
    IF IsRaised(rec) THEN rec
    ELSE AppendRecords(data, i + 1, workflow_id, Append(acc, rec))

\* lines[2:] in place of lines[1:]
DataLines_skipFirst(lines) == [i \in 1..(Len(lines) - 2) |-> lines[i + 2]]

\* lines[1:]
DataLines(lines) == [i \in 1..(Len(lines) - 1) |-> lines[i + 1]]

\* lines is f.readlines(): the lines of the trace file, each with its newline
get_process_execution_data(lines, workflow_id) ==
    IF lines = <<>> THEN Raised("IndexError")
    ELSE LET headers == SplitOn(Strip(lines[1]), "\t")
             rest == DataLines(lines)
             data == [i \in 1..Len(rest) |-> DictZip(headers, SplitOn(Strip(rest[i]), "\t"))]
         IN  AppendRecords(data, 1, workflow_id, <<>>)

----------------------------------------------------------------------------
(* Harness for get_process_execution_data *)

TraceColumns ==
    << K_hash, K_process, K_module, K_container, K_status,
       K_exit, K_start, K_duration, K_cpus, K_time,
       K_disk, K_memory, K_realtime, K_queue, K_pct_cpu,
       K_pct_mem, K_peak_rss, K_peak_vmem, K_rchar, K_wchar >>

\* the row of a table with the given cells under the given columns
Row(columns, cells) ==
    [k \in {columns[j] : j \in 1..Len(columns)} |->
        cells[CHOOSE j \in 1..Len(columns) : columns[j] = k]]

GoodRow1 ==
    Row(TraceColumns,
        << <<"a", "b", "/", "1", "2", "3", "4", "5", "6">>,
           <<"F", "A", "S", "T", "Q", "C">>,
           <<"-">>,
           <<"-">>,
           <<"C", "O", "M", "P", "L", "E", "T", "E", "D">>,
           <<"0">>,
           <<"2", "0", "2", "4", "-", "0", "1", "-", "0", "1", " ", "1", "0", ":", "0", "0", ":", "0", "0", ".", "1", "2", "3">>,
           <<"1", "m", " ", "5", "s">>,
           <<"2">>,
           <<"1", "h">>,
           <<"1", " ", "G", "B">>,
           <<"2", " ", "G", "B">>,
           <<"5", "9", "s">>,
           <<"-">>,
           <<"9", "5", ".", "5", "%">>,
           <<"0", ".", "1", "%">>,
           <<"1", "0", " ", "M", "B">>,
           <<"1", " ", "G", "B">>,
           <<"2", " ", "M", "B">>,
           <<"1", " ", "K", "B">> >>)

GoodRow2 ==
    Row(TraceColumns,
        << <<"c", "d", "/", "7", "8", "9", "a", "b", "c">>,
           <<"A", "L", "I", "G", "N">>,
           <<"-">>,
           <<"u", "b", "u", "n", "t", "u">>,
           <<"F", "A", "I", "L", "E", "D">>,
           <<"1">>,
           <<"2", "0", "2", "4", "-", "0", "1", "-", "0", "1", " ", "1", "0", ":", "0", "2", ":", "0", "0", ".", "5">>,
           <<"2", "s">>,
           <<"1">>,
           <<"2", "h">>,
           <<"2", " ", "G", "B">>,
           <<"5", "1", "2", " ", "M", "B">>,
           <<"1", ".", "5", "s">>,
           <<"l", "o", "n", "g">>,
           <<"1", "2", "%">>,
           <<"3", "%">>,
           <<"1", " ", "G", "B">>,
           <<"2", " ", "G", "B">>,
           <<"1", " ", "M", "B">>,
           <<"4", " ", "K", "B">> >>)

GoodRows == {GoodRow1, GoodRow2}

\* cells the engine may print in place of a value, or that are damaged
Deviations ==
    { <<K_exit, <<"-">>>>,
      <<K_exit, <<>>>>,
      <<K_cpus, <<"-">>>>,
      <<K_cpus, <<"x">>>>,
      <<K_time, <<"-">>>>,
      <<K_time, <<"b", "a", "d">>>>,
      <<K_disk, <<"-">>>>,
      <<K_disk, <<"b", "i", "g">>>>,
      <<K_memory, <<"-">>>>,
      <<K_memory, <<"2", " ", "X", "B">>>>,
      <<K_pct_cpu, <<"-">>>>,
      <<K_pct_mem, <<"n", "/", "a">>>> }

DeviantRows == {[GoodRow1 EXCEPT ![d[1]] = d[2]] : d \in Deviations}

\* columns a trace file may lack
DroppableColumns == {K_exit, K_cpus, K_time, K_disk, K_memory, K_pct_cpu, K_pct_mem}

RECURSIVE Without(_, _)
Without(seq, x) ==
    IF seq = <<>> THEN <<>>
    ELSE IF Head(seq) = x THEN Without(Tail(seq), x)
    ELSE <<Head(seq)>> \o Without(Tail(seq), x)

HeaderChoices == {TraceColumns} \cup {Without(TraceColumns, k) : k \in DroppableColumns}

RECURSIVE SeqsUpTo(_, _)
SeqsUpTo(S, n) ==
    IF n = 0 THEN {<<>>}
    ELSE LET shorter == SeqsUpTo(S, n - 1)
         IN  shorter \cup {Append(q, x) : q \in shorter, x \in S}

WorkflowIds == {<<"w", "1">>, <<"w", "2">>}

\* the lines of the trace file with the given columns and rows
TraceLines(columns, rows) ==
    <<JoinTab(columns) \o <<"\n">>>> \o
    [i \in 1..Len(rows) |-> JoinTab([j \in 1..Len(columns) |-> rows[i][columns[j]]]) \o <<"\n">>]

InitTrace ==
    /\ op = "init"
    /\ arg \in [columns : HeaderChoices,
                rows : SeqsUpTo(GoodRows \cup DeviantRows, MaxTraceRows),
                workflow_id : WorkflowIds]
    /\ res = None
    /\ InitIdleSubmit

ApplyTrace ==
    /\ op = "init"
    /\ op' = "get_process_execution_data"
    /\ res' = get_process_execution_data(TraceLines(arg.columns, arg.rows), arg.workflow_id)
    /\ UNCHANGED <<arg, submitVars>>

NextTrace == ApplyTrace

SpecTrace == InitTrace /\ [][NextTrace]_vars

----------------------------------------------------------------------------
(* C5 *)

\* the dictionary a row of the harness stands for, restricted to the columns
\* of the file
RowItem(columns, row) == [k \in {columns[j] : j \in 1..Len(columns)} |-> row[k]]

WellFormedRow(columns, row) == ~IsRaised(ProcessRecord(RowItem(columns, row), <<>>))

\* C5: over a header and N well-formed data rows, trace extraction returns
\* exactly N records, the i-th built from the i-th data row, each carrying
\* the workflow identifier passed in.
C5_OneRecordPerRow ==
    (/\ op = "get_process_execution_data"
     /\ \A i \in 1..Len(arg.rows) : WellFormedRow(arg.columns, arg.rows[i]))
    => /\ ~IsRaised(res)
       /\ Len(res.value) = Len(arg.rows)
       /\ \A i \in 1..Len(arg.rows) :
            /\ res.value[i].id = arg.rows[i][K_hash]
            /\ res.value[i].process_name = arg.rows[i][K_process]
            /\ res.value[i].final_status = arg.rows[i][K_status]
            /\ res.value[i].exit_code = PyInt(arg.rows[i][K_exit])
            /\ res.value[i].workflow_execution_id = arg.workflow_id

C5_Witness ==
    /\ op = "get_process_execution_data"
    /\ arg.rows = <<GoodRow2, GoodRow1>>
    /\ arg.workflow_id = <<"w", "2">>
    /\ ~IsRaised(res)
    /\ Len(res.value) = 2
    /\ res.value[1].id = GoodRow2[K_hash]
    /\ res.value[2].id = GoodRow1[K_hash]

----------------------------------------------------------------------------
(* C9 *)

Absent(columns, k) == \A j \in 1..Len(columns) : columns[j] # k

\* a required field of the row is absent or malformed
RequiredFieldBad(columns, row) ==
    \/ Absent(columns, K_exit) \/ IsRaised(PyInt(row[K_exit]))
    \/ Absent(columns, K_pct_cpu) \/ IsRaised(PyFloat(RStripChars(row[K_pct_cpu], {"%"})))
    \/ Absent(columns, K_pct_mem) \/ IsRaised(PyFloat(RStripChars(row[K_pct_mem], {"%"})))

RequestedResourceFields ==
    (K_cpus :> "cpus_requested") @@ (K_time :> "time_requested") @@
    (K_disk :> "storage_requested") @@ (K_memory :> "memory_requested")

\* a requested-resource field of the row is absent, the sentinel, or malformed
RequestedResourceBad(columns, row, k) ==
    \/ Absent(columns, k)
    \/ row[k] = <<"-">>
    \/ k = K_cpus /\ IsRaised(PyInt(row[k]))
    \/ k = K_time /\ DurationCuts(row[k]) = {}
    \/ k \in {K_disk, K_memory} /\ ~IsNumberUnit(row[k])

\* C9: a row fails exactly when exit code, %cpu or %mem is absent or
\* malformed; an absent or malformed requested-resource field (cpus, time,
\* disk, memory, the sentinel "-" included) never fails the extraction and
\* gives None for that field of the record.
C9_OptionalResourcesLenient ==
    op = "get_process_execution_data" =>
        /\ IsRaised(res) <=>
              \E i \in 1..Len(arg.rows) : RequiredFieldBad(arg.columns, arg.rows[i])
        /\ ~IsRaised(res) =>
              \A i \in 1..Len(arg.rows) : \A k \in DOMAIN RequestedResourceFields :
                  RequestedResourceBad(arg.columns, arg.rows[i], k)
                      => res.value[i][RequestedResourceFields[k]] = None

----------------------------------------------------------------------------
(* get_nextflow_version, src/client.py:36-40; get_nextflow_log, src/client.py:53-74 *)

T_Nextflow == <<"N", "e", "x", "t", "f", "l", "o", "w">>

\* next((item for item in prerequisites if item['name'] == 'Nextflow'), None)
get_nextflow_version(bco_data) ==
    LET items == bco_data.software_prerequisites
        hits == {i \in 1..Len(items) : items[i].name = T_Nextflow}
    IN  IF hits = {} THEN NoneStr
        ELSE items[CHOOSE i \in hits : \A j \in hits : i <= j].version

L_TIMESTAMP == <<"T", "I", "M", "E", "S", "T", "A", "M", "P">>
L_DURATION == <<"D", "U", "R", "A", "T", "I", "O", "N">>
L_RUN_NAME == <<"R", "U", "N", " ", "N", "A", "M", "E">>
L_STATUS == <<"S", "T", "A", "T", "U", "S">>
L_REVISION_ID == <<"R", "E", "V", "I", "S", "I", "O", "N", " ", "I", "D">>
L_SESSION_ID == <<"S", "E", "S", "S", "I", "O", "N", " ", "I", "D">>
L_COMMAND == <<"C", "O", "M", "M", "A", "N", "D">>

\* [item.strip() for item in line.split("\t")]
StrippedCells(line) ==
    LET cells == SplitOn(line, "\t") IN [i \in 1..Len(cells) |-> Strip(cells[i])]

\* lines[1] in place of lines[-1]: the first data row
LatestRunLine_first(lines) == lines[IF Len(lines) >= 2 THEN 2 ELSE 1]

\* lines[-1]
LatestRunLine(lines) == lines[Len(lines)]

\* result is the completed "nextflow log" command: returncode and stdout
get_nextflow_log(result, bco_data) ==
    IF result.returncode # 0 THEN None
    ELSE LET lines == SplitOn(Strip(result.stdout), "\n")
             headers == StrippedCells(lines[1])
             latest_run == StrippedCells(LatestRunLine(lines))
             execution_data == DictZip(headers, latest_run)
             start_time == IF L_TIMESTAMP \in DOMAIN execution_data
                           THEN Strptime(execution_data[L_TIMESTAMP], FALSE)
                           ELSE Raised("KeyError")
             duration == duration_to_seconds(DictGet(execution_data, L_DURATION, NoneStr))
         IN  IF IsRaised(start_time) THEN start_time
             ELSE IF IsRaised(duration) THEN duration
             ELSE [ id |-> DictGet(execution_data, L_SESSION_ID, NoneStr),
                    start_time |-> start_time,
                    duration |-> duration,
                    run_name |-> DictGet(execution_data, L_RUN_NAME, NoneStr),
                    nextflow_version |-> get_nextflow_version(bco_data),
                    revision_id |-> DictGet(execution_data, L_REVISION_ID, NoneStr),
                    final_state |-> DictGet(execution_data, L_STATUS, NoneStr) ]

----------------------------------------------------------------------------
(* Harness for get_nextflow_log *)

LogColumns ==
    <<L_TIMESTAMP, L_DURATION, L_RUN_NAME, L_STATUS, L_REVISION_ID, L_SESSION_ID, L_COMMAND>>

LogRow1 ==
    Row(LogColumns,
        << <<"2", "0", "2", "4", "-", "0", "1", "-", "0", "1", " ", "0", "9", ":", "0", "0", ":", "0", "0">>,
           <<"1", "m", " ", "5", "s">>,
           <<"h", "a", "p", "p", "y", "_", "e", "u", "l", "e", "r">>,
           <<"O", "K">>,
           <<"a", "1", "b", "2", "c", "3">>,
           <<"s", "-", "1">>,
           <<"n", "e", "x", "t", "f", "l", "o", "w", " ", "r", "u", "n", " ", "m", "a", "i", "n", ".", "n", "f">> >>)

LogRow2 ==
    Row(LogColumns,
        << <<"2", "0", "2", "4", "-", "0", "1", "-", "0", "2", " ", "0", "9", ":", "3", "0", ":", "0", "0">>,
           <<"-">>,
           <<"s", "a", "d", "_", "t", "u", "r", "i", "n", "g">>,
           <<"E", "R", "R">>,
           <<"d", "4", "e", "5", "f", "6">>,
           <<"s", "-", "2">>,
           <<"n", "e", "x", "t", "f", "l", "o", "w", " ", "r", "u", "n", " ", "m", "a", "i", "n", ".", "n", "f", " ", "-", "r", "e", "s", "u", "m", "e">> >>)

LogRow3 ==
    Row(LogColumns,
        << <<"2", "0", "2", "4", "-", "0", "1", "-", "0", "3", " ", "1", "8", ":", "0", "0", ":", "0", "0">>,
           <<"2", "h">>,
           <<"t", "i", "n", "y", "_", "c", "u", "r", "i", "e">>,
           <<"O", "K">>,
           <<"a", "1", "b", "2", "c", "3">>,
           <<"s", "-", "3">>,
           <<"n", "e", "x", "t", "f", "l", "o", "w", " ", "r", "u", "n", " ", "m", "a", "i", "n", ".", "n", "f">> >>)

LogRowBad ==
    Row(LogColumns,
        << <<"y", "e", "s", "t", "e", "r", "d", "a", "y">>,
           <<"s", "o", "o", "n">>,
           <<"o", "d", "d", "_", "r", "o", "w">>,
           <<"-">>,
           <<"-">>,
           <<"s", "-", "9">>,
           <<"n", "e", "x", "t", "f", "l", "o", "w">> >>)

GoodLogRows == {LogRow1, LogRow2, LogRow3}

LogHeaders ==
    { LogColumns,
      <<L_SESSION_ID, L_STATUS, L_TIMESTAMP, L_RUN_NAME, L_DURATION, L_COMMAND, L_REVISION_ID>> }

Prerequisites ==
    { <<>>,
      <<[name |-> T_Nextflow, version |-> <<"2", "4", ".", "0", "4">>]>>,
      <<[name |-> <<"b", "a", "s", "h">>, version |-> <<"5", ".", "1">>],
        [name |-> T_Nextflow, version |-> <<"2", "3", ".", "1", "0">>],
        [name |-> T_Nextflow, version |-> <<"2", "4", ".", "0", "4">>]>> }

\* the engine pads every cell of the table with a blank
PaddedLine(columns, row) ==
    JoinTab([j \in 1..Len(columns) |-> row[columns[j]] \o <<" ">>])

RECURSIVE JoinLines(_)
JoinLines(lines) ==
    IF lines = <<>> THEN <<>> ELSE Head(lines) \o <<"\n">> \o JoinLines(Tail(lines))

\* what "nextflow log" prints for the given runs
LogStdout(columns, rows) ==
    JoinLines(<<JoinTab([j \in 1..Len(columns) |-> columns[j] \o <<" ">>])>> \o
              [i \in 1..Len(rows) |-> PaddedLine(columns, rows[i])])

InitLog ==
    /\ op = "init"
    /\ arg \in [returncode : {0, 1},
                columns : LogHeaders,
                rows : SeqsUpTo(GoodLogRows \cup {LogRowBad}, MaxLogRows),
                software_prerequisites : Prerequisites]
    /\ res = None
    /\ InitIdleSubmit

ApplyLog ==
    /\ op = "init"
    /\ op' = "get_nextflow_log"
    /\ res' = get_nextflow_log([returncode |-> arg.returncode,
                                stdout |-> LogStdout(arg.columns, arg.rows)],
                               [software_prerequisites |-> arg.software_prerequisites])
    /\ UNCHANGED <<arg, submitVars>>

NextLog == ApplyLog

SpecLog == InitLog /\ [][NextLog]_vars

----------------------------------------------------------------------------
(* C6 *)

LastRow(rows) == rows[Len(rows)]

\* C6: over a run-log table with a header and one or more data rows, log
\* extraction builds the record from the last data row only, mapped by header
\* name, whatever the earlier rows contain.
C6_LastRowSelected ==
    (/\ op = "get_nextflow_log"
     /\ arg.returncode = 0
     /\ arg.rows # <<>>
     /\ LastRow(arg.rows) \in GoodLogRows)
    => /\ ~IsRaised(res)
       /\ res # None
       /\ res.id = LastRow(arg.rows)[L_SESSION_ID]
       /\ res.start_time = [timestamp |-> LastRow(arg.rows)[L_TIMESTAMP]]
       /\ res.duration = duration_to_seconds(LastRow(arg.rows)[L_DURATION])
       /\ res.run_name = LastRow(arg.rows)[L_RUN_NAME]
       /\ res.revision_id = LastRow(arg.rows)[L_REVISION_ID]
       /\ res.final_state = LastRow(arg.rows)[L_STATUS]

C6_Witness ==
    /\ op = "get_nextflow_log"
    /\ arg.returncode = 0
    /\ arg.rows = <<LogRow1, LogRowBad, LogRow2>>
    /\ arg.columns[1] = L_SESSION_ID
    /\ res # None
    /\ ~IsRaised(res)
    /\ res.id = LogRow2[L_SESSION_ID]
    /\ res.duration = RatInt(0)

----------------------------------------------------------------------------
(* get_file_xxhash128, get_directory_xxhash128, src/client.py:131-160 *)

\* code points of the characters that occur in paths
CharCode(c) ==
    CASE c = " " -> 32 [] c = "." -> 46 [] c = "/" -> 47 [] c = "0" -> 48 [] c = "1" -> 49
      [] c = "A" -> 65 [] c = "B" -> 66 [] c = "_" -> 95
      [] c = "a" -> 97 [] c = "b" -> 98 [] c = "d" -> 100 [] c = "t" -> 116
      [] c = "x" -> 120 [] c = "y" -> 121

\* s < t for Python strings: code point by code point, a proper prefix first
RECURSIVE TextLess(_, _)
TextLess(s, t) ==
    IF t = <<>> THEN FALSE
    ELSE IF s = <<>> THEN TRUE
    ELSE IF Head(s) = Head(t) THEN TextLess(Tail(s), Tail(t))
    ELSE CharCode(Head(s)) < CharCode(Head(t))

RECURSIVE InsertSorted(_, _)
InsertSorted(sorted, x) ==
    IF sorted = <<>> THEN <<x>>
    ELSE IF TextLess(x, Head(sorted)) THEN <<x>> \o sorted
    ELSE <<Head(sorted)>> \o InsertSorted(Tail(sorted), x)

\* files.sort() left out: the list stays in walk order
SortTexts_unsorted(list) == list

\* list.sort() on a list of strings
RECURSIVE SortTexts(_)
SortTexts(list) ==
    IF list = <<>> THEN <<>>
    ELSE InsertSorted(SortTexts(SubSeq(list, 1, Len(list) - 1)), list[Len(list)])

\* xxh128 is kept symbolic: the digest text of a byte string is the byte
\* string between brackets, different for different inputs.  Feeding a hash
\* chunk by chunk is feeding it the concatenation.
HexDigest(bytes) == <<"[">> \o bytes \o <<"]">>

get_file_xxhash128(content) == HexDigest(content)

\* os.path.join(root, filename)
PathJoin(root, filename) == root \o <<"/">> \o filename

RECURSIVE Concat(_)
Concat(texts) == IF texts = <<>> THEN <<>> ELSE Head(texts) \o Concat(Tail(texts))

\* the lines "<digest> <path>" of the readable files of the list, in list order
RECURSIVE HashLines(_, _)
HashLines(files, fs) ==
    IF files = <<>> THEN <<>>
    ELSE LET file == Head(files)
         IN  (IF fs[file].readable
              THEN <<HexDigest(fs[file].content) \o <<" ">> \o file>>
              ELSE <<>>) \o HashLines(Tail(files), fs)

\* walk is what os.walk(dirname) yields: (root, filenames) per directory, in
\* the order the filesystem enumerates them; fs maps a path to its content
get_directory_xxhash128(walk, fs) ==
    LET files == Concat([i \in 1..Len(walk) |->
                          [j \in 1..Len(walk[i].filenames) |->
                              PathJoin(walk[i].root, walk[i].filenames[j])]])
        sorted == SortTexts(files)
    IN  HexDigest(Concat(HashLines(sorted, fs)))

----------------------------------------------------------------------------
(* Harness for get_directory_xxhash128 *)

DirRoot == <<"d">>
DirSub == <<"d", "/", "a">>

\* candidate files of the tree: directory and name
TreeCandidates ==
    { [root |-> DirRoot, name |-> <<"b">>],
      [root |-> DirRoot, name |-> <<"a", ".", "t", "x", "t">>],
      [root |-> DirSub, name |-> <<"x">>],
      [root |-> DirSub, name |-> <<"y">>] }

FileStates ==
    { [present |-> FALSE, readable |-> FALSE, content |-> <<>>],
      [present |-> TRUE, readable |-> FALSE, content |-> <<"A">>],
      [present |-> TRUE, readable |-> TRUE, content |-> <<"A">>],
      [present |-> TRUE, readable |-> TRUE, content |-> <<"B">>] }

\* all orderings of a finite set
RECURSIVE Orderings(_)
Orderings(S) ==
    IF S = {} THEN {<<>>}
    ELSE UNION {{<<x>> \o q : q \in Orderings(S \ {x})} : x \in S}

TreeFiles(tree) == {c \in TreeCandidates : tree[c].present}

TreeFs(tree) ==
    [path \in {PathJoin(c.root, c.name) : c \in TreeFiles(tree)} |->
        LET c == CHOOSE c \in TreeFiles(tree) : PathJoin(c.root, c.name) = path
        IN  [readable |-> tree[c].readable, content |-> tree[c].content]]

\* the enumerations os.walk may produce, top-down: the root directory, then
\* the subdirectory, the file names of each in any order
WalkOrders(tree) ==
    LET names(root) == {c.name : c \in {f \in TreeFiles(tree) : f.root = root}}
    IN  { <<[root |-> DirRoot, filenames |-> r], [root |-> DirSub, filenames |-> s]>> :
            r \in Orderings(names(DirRoot)), s \in Orderings(names(DirSub)) }

InitDir ==
    /\ op = "init"
    /\ arg \in [TreeCandidates -> FileStates]
    /\ res = <<>>
    /\ InitIdleSubmit

\* one more call on the unmodified tree
ApplyDir ==
    /\ Len(res) < MaxWalks
    /\ \E walk \in WalkOrders(arg) :
          res' = Append(res, get_directory_xxhash128(walk, TreeFs(arg)))
    /\ op' = "get_directory_xxhash128"
    /\ UNCHANGED <<arg, submitVars>>

NextDir == ApplyDir

SpecDir == InitDir /\ [][NextDir]_vars

----------------------------------------------------------------------------
(* C10 *)

\* the readable paths of the tree in lexicographic order: the one ordering in
\* which no path precedes a smaller one
ReadablePathsInOrder(tree) ==
    LET paths == {PathJoin(c.root, c.name) : c \in {f \in TreeFiles(tree) : tree[f].readable}}
    IN  CHOOSE q \in Orderings(paths) :
            \A i \in 1..Len(q) : \A j \in 1..Len(q) : i < j => TextLess(q[i], q[j])

ExpectedDirectoryDigest(tree) ==
    LET q == ReadablePathsInOrder(tree)
        fs == TreeFs(tree)
    IN  HexDigest(Concat([i \in 1..Len(q) |-> HexDigest(fs[q[i]].content) \o <<" ">> \o q[i]]))

\* C10: for a fixed tree, every enumeration order of the walk gives the same
\* digest, the fold of the lines "<file digest> <path>" in lexicographic
\* order of full path, and repeated calls return the same digest.
C10_DirectoryDigestOrderFree ==
    \A i \in 1..Len(res) :
        op = "get_directory_xxhash128" => res[i] = ExpectedDirectoryDigest(arg)

C10_Witness ==
    /\ op = "get_directory_xxhash128"
    /\ Len(res) = 2
    /\ res[1] = res[2]
    /\ Cardinality(TreeFiles(arg)) = 4
    /\ \A c \in TreeCandidates : arg[c].readable

----------------------------------------------------------------------------
(* Storage API, src/api/main.py *)

\* the tables created by Base.metadata.create_all, empty
EmptyDb ==
    [ workflow_execution |-> {},
      process_execution |-> {},
      process_execution_parameter_input |-> {},
      process_execution_input_file |-> {},
      process_execution_output_file |-> {} ]

\* a JSON value accepted for a field declared str / float / int
IsStr(v) == v # NoneStr
IsNumber(v) == v # None

\* the request body is absent (requests.post(json=None) sends none)
NoBody == [nobody |-> TRUE]

\* WorkflowExecutionCreate: id is required, the other fields are optional
ValidWorkflowExecutionCreate(body) ==
    /\ body # NoBody
    /\ IsStr(body.id)

\* ProcessExecutionCreate: the fields declared without a default are required
ValidProcessExecutionCreate(body) ==
    /\ body # NoBody
    /\ IsStr(body.id)
    /\ IsStr(body.workflow_execution_id)
    /\ IsStr(body.process_name)
    /\ IsStr(body.final_status)
    /\ IsNumber(body.exit_code)
    /\ IsNumber(body.start_time)
    /\ IsNumber(body.duration)
    /\ IsNumber(body.realtime)
    /\ IsNumber(body.percent_cpu)
    /\ IsNumber(body.percent_memory)
    /\ IsNumber(body.peak_rss)
    /\ IsNumber(body.peak_vmem)
    /\ IsNumber(body.read_char)
    /\ IsNumber(body.write_char)

\* ProcessExecutionInputFileBase / ProcessExecutionOutputFileBase
ValidProcessExecutionFile(body) ==
    /\ body # NoBody
    /\ IsStr(body.process_execution_id)
    /\ IsStr(body.filename)
    /\ IsStr(body.xxhash128)

\* answers of the API: the handler returned, the body was rejected by the
\* schema, the handler raised (constraint violated or commit failed)
HttpOk == 200
HttpUnprocessable == 422
HttpServerError == 500

Answer(status, store) == [status |-> status, db |-> store]

\* POST /workflows/ ; commitFails: db.commit() raises for a reason outside
\* the request (the database is unreachable)
create_execution(store, body, commitFails) ==
    IF ~ValidWorkflowExecutionCreate(body) THEN Answer(HttpUnprocessable, store)
    ELSE IF commitFails \/ \E w \in store.workflow_execution : w.id = body.id
         THEN Answer(HttpServerError, store)
    ELSE Answer(HttpOk, [store EXCEPT !.workflow_execution = @ \cup {body}])

\* POST /processes/ : primary key id, foreign key workflow_execution_id
create_process_execution(store, body, commitFails) ==
    IF ~ValidProcessExecutionCreate(body) THEN Answer(HttpUnprocessable, store)
    ELSE IF \/ commitFails
            \/ \E q \in store.process_execution : q.id = body.id
            \/ ~\E w \in store.workflow_execution : w.id = body.workflow_execution_id
         THEN Answer(HttpServerError, store)
    ELSE Answer(HttpOk, [store EXCEPT !.process_execution = @ \cup {body}])

\* POST /input_files/ : primary key (process_execution_id, filename,
\* xxhash128), foreign key process_execution_id
create_input_file(store, body, commitFails) ==
    IF ~ValidProcessExecutionFile(body) THEN Answer(HttpUnprocessable, store)
    ELSE IF \/ commitFails
            \/ body \in store.process_execution_input_file
            \/ ~\E q \in store.process_execution : q.id = body.process_execution_id
         THEN Answer(HttpServerError, store)
    ELSE Answer(HttpOk, [store EXCEPT !.process_execution_input_file = @ \cup {body}])

\* POST /output_files/
create_output_file(store, body, commitFails) ==
    IF ~ValidProcessExecutionFile(body) THEN Answer(HttpUnprocessable, store)
    ELSE IF \/ commitFails
            \/ body \in store.process_execution_output_file
            \/ ~\E q \in store.process_execution : q.id = body.process_execution_id
         THEN Answer(HttpServerError, store)
    ELSE Answer(HttpOk, [store EXCEPT !.process_execution_output_file = @ \cup {body}])

----------------------------------------------------------------------------
(* get_trace_filepath, src/client.py:43-50 *)

T_TraceFile == <<"t", "r", "a", "c", "e", " ", "f", "i", "l", "e", ":", " ">>
T_DotTxt == <<".", "t", "x", "t">>

StartsAt(s, i, sub) == i + Len(sub) - 1 <= Len(s) /\ SubSeq(s, i, i + Len(sub) - 1) = sub

\* re.search(r"trace file: (/.+\.txt)", line): group 1 of the leftmost match,
\* the greedy .+ running to the last ".txt" of the line
TracePathInLine(line) ==
    LET ends(i) == {e \in (i + Len(T_TraceFile) + 1)..Len(line) :
                       /\ StartsAt(line, e, T_DotTxt)
                       /\ \A k \in (i + Len(T_TraceFile))..(e - 1) : line[k] # "\n"}
        starts == {i \in 1..Len(line) :
                       /\ StartsAt(line, i, T_TraceFile \o <<"/">>)
                       /\ ends(i) # {}}
    IN  IF starts = {} THEN NoneStr
        ELSE LET i == CHOOSE i \in starts : \A j \in starts : i <= j
                 e == CHOOSE e \in ends(i) : \A k \in ends(i) : k <= e
             IN  SubSeq(line, i + Len(T_TraceFile), e + Len(T_DotTxt) - 1)

\* log_lines: the lines of the log file; the path of the first line that matches
get_trace_filepath(log_lines) ==
    LET hits == {i \in 1..Len(log_lines) : TracePathInLine(log_lines[i]) # NoneStr}
    IN  IF hits = {} THEN NoneStr
        ELSE TracePathInLine(log_lines[CHOOSE i \in hits : \A j \in hits : i <= j])

----------------------------------------------------------------------------
(* extract_process_id, get_obj_xxhash128, get_provenance_data, src/client.py:128-198 *)

\* Python slice s[a:b], 0-based, clipped to the text
Slice(s, a, b) == SubSeq(s, a + 1, Min(b, Len(s)))

extract_process_id(name) == Slice(name, 0, 2) \o <<"/">> \o Slice(name, 2, 8)

T_FileScheme == <<"f", "i", "l", "e", ":", "/", "/">>

\* urlparse(uri).path for file URIs and plain paths: the scheme and the
\* authority are dropped, the path ends before "?" or "#"
UrlPath(uri) ==
    LET afterScheme == IF StartsAt(uri, 1, T_FileScheme)
                       THEN SubSeq(uri, Len(T_FileScheme) + 1, Len(uri)) ELSE uri
        slashes == {i \in 1..Len(afterScheme) : afterScheme[i] = "/"}
        from == IF StartsAt(uri, 1, T_FileScheme)
                THEN (IF slashes = {} THEN Len(afterScheme) + 1
                      ELSE CHOOSE i \in slashes : \A j \in slashes : i <= j)
                ELSE 1
        stops == {i \in from..Len(afterScheme) : afterScheme[i] \in {"?", "#"}}
        to == IF stops = {} THEN Len(afterScheme)
              ELSE (CHOOSE i \in stops : \A j \in stops : i <= j) - 1
    IN  SubSeq(afterScheme, from, to)

\* unquote(path): the percent escape of the blank is decoded
RECURSIVE Unquote(_)
Unquote(s) ==
    IF s = <<>> THEN <<>>
    ELSE IF StartsAt(s, 1, <<"%", "2", "0">>) THEN <<" ">> \o Unquote(SubSeq(s, 4, Len(s)))
    ELSE <<Head(s)>> \o Unquote(Tail(s))

\* fs maps the paths that exist to [kind |-> "file", content] or
\* [kind |-> "dir", files]; walks gives, for a directory, what os.walk yields
get_obj_xxhash128(obj, fs, walks) ==
    LET full_path == Unquote(UrlPath(obj))
    IN  IF full_path \in DOMAIN fs /\ fs[full_path].kind = "file"
        THEN get_file_xxhash128(fs[full_path].content)
        ELSE IF full_path \in DOMAIN fs /\ fs[full_path].kind = "dir"
        THEN get_directory_xxhash128(walks[full_path], fs[full_path].files)
        ELSE NoneStr

\* the output list read in place of the input list
StepInputUris_outputs(step) == [i \in 1..Len(step.output_list) |-> step.output_list[i].uri]

\* [file["uri"] for file in step.get("input_list", [])]
StepInputUris(step) == [i \in 1..Len(step.input_list) |-> step.input_list[i].uri]

\* the input list read in place of the output list
StepOutputUris_inputs(step) == [i \in 1..Len(step.input_list) |-> step.input_list[i].uri]

\* [file["uri"] for file in step.get("output_list", [])]
StepOutputUris(step) == [i \in 1..Len(step.output_list) |-> step.output_list[i].uri]

FileRecords(step, uris, fs, walks) ==
    [i \in 1..Len(uris) |->
        [ process_execution_id |-> extract_process_id(step.name),
          filename |-> uris[i],
          xxhash128 |-> get_obj_xxhash128(uris[i], fs, walks) ]]

\* the pair (process_executions_inputs, process_executions_outputs)
get_provenance_data(bco_data, fs, walks) ==
    LET steps == bco_data.pipeline_steps
    IN  [ inputs |-> Concat([s \in 1..Len(steps) |->
                        FileRecords(steps[s], StepInputUris(steps[s]), fs, walks)]),
          outputs |-> Concat([s \in 1..Len(steps) |->
                        FileRecords(steps[s], StepOutputUris(steps[s]), fs, walks)]) ]

----------------------------------------------------------------------------
(* The outside world of one run of submit *)

GoodRow3 ==
    Row(TraceColumns,
        << <<"e", "f", "/", "0", "0", "0", "1", "1", "1">>,
           <<"R", "E", "P", "O", "R", "T">>,
           <<"-">>,
           <<"-">>,
           <<"C", "O", "M", "P", "L", "E", "T", "E", "D">>,
           <<"0">>,
           <<"2", "0", "2", "4", "-", "0", "1", "-", "0", "1", " ", "1", "0", ":", "0", "5", ":", "0", "0", ".", "0">>,
           <<"3", "s">>,
           <<"1">>,
           <<"-">>,
           <<"-">>,
           <<"-">>,
           <<"2", "s">>,
           <<"-">>,
           <<"5", "%">>,
           <<"1", "%">>,
           <<"2", " ", "M", "B">>,
           <<"3", " ", "M", "B">>,
           <<"1", " ", "K", "B">>,
           <<"1", " ", "K", "B">> >>)

\* a row whose peak_rss the engine did not measure
RowNoRss == [GoodRow1 EXCEPT ![K_hash] = <<"a", "a", "/", "9", "9", "9", "9", "9", "9">>, ![K_peak_rss] = <<"-">>]

\* a row without a cpus request
RowNoCpus == [GoodRow2 EXCEPT ![K_cpus] = <<"-">>]

SubmitRows == {GoodRow1, GoodRow2, GoodRow3, RowNoCpus}

T_TracePath == <<"/", "w", "/", "t", "r", "a", "c", "e", ".", "t", "x", "t">>

LogFileWithTrace ==
    << <<"N", " ", "E", " ", "X", " ", "T", " ", "F", " ", "L", " ", "O", " ", "W", "\n">>,
       <<"D", "E", "B", "U", "G", " ", "t", "r", "a", "c", "e", " ", "f", "i", "l", "e", ":", " ", "/", "w", "/", "t", "r", "a", "c", "e", ".", "t", "x", "t", "\n">> >>

LogFileWithoutTrace ==
    << <<"N", " ", "E", " ", "X", " ", "T", " ", "F", " ", "L", " ", "O", " ", "W", "\n">> >>

\* the "nextflow log" command and the log file of the run
LogScenarios ==
    { [returncode |-> 0, log_file |-> LogFileWithTrace],
      [returncode |-> 1, log_file |-> LogFileWithTrace],
      [returncode |-> 0, log_file |-> LogFileWithoutTrace] }

UriA == <<"f", "i", "l", "e", ":", "/", "/", "/", "d", "/", "a", ".", "t", "x", "t">>
UriB == <<"f", "i", "l", "e", ":", "/", "/", "/", "d", "/", "b", "%", "2", "0", "b">>
UriC == <<"f", "i", "l", "e", ":", "/", "/", "/", "d", "/", "a">>

PathA == <<"/", "d", "/", "a", ".", "t", "x", "t">>
PathB == <<"/", "d", "/", "b", " ", "b">>
PathC == <<"/", "d", "/", "a">>

Step1 == [name |-> <<"a", "b", "1", "2", "3", "4", "5", "6", "f", "f", "f", "f">>, input_list |-> <<[uri |-> UriA]>>, output_list |-> <<[uri |-> UriB]>>]
Step2 == [name |-> <<"c", "d", "7", "8", "9", "a", "b", "c", "0", "0", "0", "0">>, input_list |-> <<[uri |-> UriB]>>, output_list |-> <<[uri |-> UriC]>>]
Step3 == [name |-> <<"e", "f", "0", "0", "0", "1", "1", "1", "0", "0", "0", "0">>, input_list |-> <<[uri |-> UriA], [uri |-> UriC]>>, output_list |-> <<>>]

SampleSteps == {Step1, Step2, Step3}

DirCFiles ==
    (PathJoin(PathC, <<"x">>) :> [readable |-> TRUE, content |-> <<"A">>]) @@
    (PathJoin(PathC, <<"y">>) :> [readable |-> TRUE, content |-> <<"B">>])

\* every reference of the sample steps resolves
FsAll ==
    (PathA :> [kind |-> "file", content |-> <<"A">>, files |-> <<>>]) @@
    (PathB :> [kind |-> "file", content |-> <<"B">>, files |-> <<>>]) @@
    (PathC :> [kind |-> "dir", content |-> <<>>, files |-> DirCFiles])

\* PathB is neither a file nor a directory
FsWithoutB ==
    (PathA :> [kind |-> "file", content |-> <<"A">>, files |-> <<>>]) @@
    (PathC :> [kind |-> "dir", content |-> <<>>, files |-> DirCFiles])

Filesystems == {FsAll, FsWithoutB}

\* what os.walk may yield for the directories of a filesystem
DirWalks(fs) ==
    LET dirs == {p \in DOMAIN fs : fs[p].kind = "dir"}
        names(p) == {SubSeq(f, Len(p) + 2, Len(f)) : f \in DOMAIN fs[p].files}
    IN  {w \in [dirs -> UNION {{<<[root |-> p, filenames |-> q]>> : q \in Orderings(names(p))} : p \in dirs}] :
            \A p \in dirs : w[p][1].root = p}

Environments ==
    [ log : LogScenarios,
      rows : SeqsUpTo(SubmitRows, MaxSubmitRows),
      steps : SeqsUpTo(SampleSteps, MaxSteps),
      fs : Filesystems ]

\* the inputs of the run as the code reads them
EnvLogResult == [returncode |-> env.log.returncode, stdout |-> LogStdout(LogColumns, <<LogRow1, LogRow2>>)]

EnvBco == [ software_prerequisites |-> <<[name |-> T_Nextflow, version |-> <<"2", "4", ".", "0", "4">>]>>,
            pipeline_steps |-> env.steps ]

\* the text files that can be opened
EnvTextFiles == (T_TracePath :> TraceLines(TraceColumns, env.rows))

----------------------------------------------------------------------------
(* submit, src/client.py:203-244 *)

\* response.status_code != 200 never taken as a failure
Failed_never(status) == FALSE

\* response.status_code != 200
Failed(status) == status # HttpOk

Request(kind, body, status) == [kind |-> kind, body |-> body, status |-> status]

InitSubmit ==
    /\ op = "submit"
    /\ arg = <<>>
    /\ res = None
    /\ pc = "workflow"
    /\ env \in Environments
    /\ requests = <<>>
    /\ wfData = None
    /\ procData = <<>>
    /\ fileInputs = <<>>
    /\ fileOutputs = <<>>
    /\ idx = 0
    /\ db = EmptyDb

\* json=workflow_execution_data: None is sent as no body at all
WorkflowBody(data) == IF data = None THEN NoBody ELSE data

\* lines 206-214 once the server has answered
WorkflowPosted(data, body, answer) ==
    /\ requests' = Append(requests, Request("workflow", body, answer.status))
    /\ db' = answer.db
    /\ wfData' = data
    /\ pc' = IF Failed(answer.status) THEN "returned" ELSE "trace"

\* lines 206-214 for the extracted workflow_execution_data
PostWorkflowData(data, body) ==
    IF IsRaised(data)
    THEN /\ pc' = "raised"
         /\ UNCHANGED <<requests, wfData, db>>
    ELSE \E commitFails \in BOOLEAN :
           WorkflowPosted(data, body, create_execution(db, body, commitFails))

PostWorkflowOf(data) == PostWorkflowData(data, WorkflowBody(data))

\* lines 205-214: log extraction and the workflow submission
PostWorkflow ==
    /\ pc = "workflow"
    /\ PostWorkflowOf(get_nextflow_log(EnvLogResult, EnvBco))
    /\ UNCHANGED <<harnessVars, env, procData, fileInputs, fileOutputs, idx>>

\* lines 217-220: open(trace_file) and the parse of what was read
TraceData(trace_file, files) ==
    IF wfData = None THEN Raised("TypeError")
    ELSE IF trace_file = NoneStr THEN Raised("TypeError")
    ELSE IF trace_file \notin DOMAIN files THEN Raised("FileNotFoundError")
    ELSE get_process_execution_data(files[trace_file], wfData.id)

\* line 220 once process_execution_data is bound, or the exception raised
TraceExtracted(data) ==
    IF IsRaised(data)
    THEN /\ pc' = "raised"
         /\ UNCHANGED <<procData, idx>>
    ELSE /\ procData' = data.value
         /\ idx' = 1
         /\ pc' = IF data.value = <<>> THEN "provenance" ELSE "processes"

\* lines 217-220: the trace file is located, opened and parsed
ExtractTrace ==
    /\ pc = "trace"
    /\ TraceExtracted(TraceData(get_trace_filepath(env.log.log_file), EnvTextFiles))
    /\ UNCHANGED <<harnessVars, env, requests, wfData, fileInputs, fileOutputs, db>>

\* lines 221-226: one iteration of the loop over process_execution_data
PostProcess ==
    /\ pc = "processes"
    /\ \E commitFails \in BOOLEAN :
         LET answer == create_process_execution(db, procData[idx], commitFails)
         IN  /\ requests' = Append(requests, Request("process", procData[idx], answer.status))
             /\ db' = answer.db
             /\ pc' = IF Failed(answer.status) THEN "returned"
                      ELSE IF idx = Len(procData) THEN "provenance" ELSE "processes"
    /\ idx' = idx + 1
    /\ UNCHANGED <<harnessVars, env, wfData, procData, fileInputs, fileOutputs>>

\* lines 230-231: provenance extraction; directories are walked in whatever
\* order the filesystem enumerates them
ExtractProvenance ==
    /\ pc = "provenance"
    /\ \E walks \in DirWalks(env.fs) :
         LET data == get_provenance_data(EnvBco, env.fs, walks)
         IN  /\ fileInputs' = data.inputs
             /\ fileOutputs' = data.outputs
             /\ pc' = IF data.inputs # <<>> THEN "input_files"
                      ELSE IF data.outputs # <<>> THEN "output_files" ELSE "done"
    /\ idx' = 1
    /\ UNCHANGED <<harnessVars, env, requests, wfData, procData, db>>

\* lines 232-237: one iteration of the loop over file_inputs
PostInputFile ==
    /\ pc = "input_files"
    /\ \E commitFails \in BOOLEAN :
         LET answer == create_input_file(db, fileInputs[idx], commitFails)
         IN  /\ requests' = Append(requests, Request("input_file", fileInputs[idx], answer.status))
             /\ db' = answer.db
             /\ pc' = IF Failed(answer.status) THEN "returned"
                      ELSE IF idx < Len(fileInputs) THEN "input_files"
                      ELSE IF fileOutputs # <<>> THEN "output_files" ELSE "done"
    /\ idx' = IF idx < Len(fileInputs) THEN idx + 1 ELSE 1
    /\ UNCHANGED <<harnessVars, env, wfData, procData, fileInputs, fileOutputs>>

\* lines 238-244: one iteration of the loop over file_outputs
PostOutputFile ==
    /\ pc = "output_files"
    /\ \E commitFails \in BOOLEAN :
         LET answer == create_output_file(db, fileOutputs[idx], commitFails)
         IN  /\ requests' = Append(requests, Request("output_file", fileOutputs[idx], answer.status))
             /\ db' = answer.db
             /\ pc' = IF Failed(answer.status) THEN "returned"
                      ELSE IF idx < Len(fileOutputs) THEN "output_files" ELSE "done"
    /\ idx' = idx + 1
    /\ UNCHANGED <<harnessVars, env, wfData, procData, fileInputs, fileOutputs>>

NextSubmit ==
    \/ PostWorkflow
    \/ ExtractTrace
    \/ PostProcess
    \/ ExtractProvenance
    \/ PostInputFile
    \/ PostOutputFile

SpecSubmit == InitSubmit /\ [][NextSubmit]_vars

Spec == SpecSubmit

SubmitTypeOK ==
    /\ pc \in {"workflow", "trace", "processes", "provenance", "input_files",
               "output_files", "done", "returned", "raised"}
    /\ pc = "processes" => idx \in 1..Len(procData)
    /\ pc = "input_files" => idx \in 1..Len(fileInputs)
    /\ pc = "output_files" => idx \in 1..Len(fileOutputs)

----------------------------------------------------------------------------
(* C1 *)

Kinds(reqs) == [i \in 1..Len(reqs) |-> reqs[i].kind]

Repeat(x, n) == [i \in 1..n |-> x]

RECURSIVE SumLen(_, _)
SumLen(steps, list) ==
    IF steps = <<>> THEN 0
    ELSE Len(IF list = "input_list" THEN Head(steps).input_list ELSE Head(steps).output_list)
         + SumLen(Tail(steps), list)

AllSucceeded == \A i \in 1..Len(requests) : requests[i].status = HttpOk

\* C1: when every submission succeeds, a run over N trace rows and a document
\* declaring I input and O output files issues 1 workflow submission, then N
\* process submissions, then I input-file and O output-file submissions, and
\* nothing else (3 rows, 2 steps with 1 input and 1 output each: 1, 3, 2 + 2).
C1_SubmissionCounts ==
    (pc = "done" /\ AllSucceeded) =>
        Kinds(requests) =
            <<"workflow">>
            \o Repeat("process", Len(env.rows))
            \o Repeat("input_file", SumLen(env.steps, "input_list"))
            \o Repeat("output_file", SumLen(env.steps, "output_list"))

C1_Witness ==
    /\ pc = "done"
    /\ AllSucceeded
    /\ Len(env.rows) = 3
    /\ env.steps = <<Step1, Step2>>
    /\ Kinds(requests) = <<"workflow", "process", "process", "process",
                           "input_file", "input_file", "output_file", "output_file">>

----------------------------------------------------------------------------
(* C2 *)

\* C2: whichever kind of submission is answered with a failure, the driver
\* reacts the same way: it returns, so a failed submission is the last one of
\* the run, for workflow, process, input-file and output-file records alike.
C2_UniformAbort ==
    \A i \in 1..Len(requests) :
        requests[i].status # HttpOk => (i = Len(requests) /\ pc = "returned")

C2_Witness ==
    /\ pc = "returned"
    /\ Len(requests) >= 4
    /\ requests[Len(requests)].kind = "output_file"
    /\ requests[Len(requests)].status # HttpOk
    /\ \E i \in 1..Len(requests) : requests[i].kind = "input_file"

----------------------------------------------------------------------------
(* C3 *)

\* C3: when the log command ends with a nonzero status the submission is
\* aborted: no workflow, process or file submission is issued in that run.
C3_NoRequestWithoutLog ==
    env.log.returncode # 0 => requests = <<>>

----------------------------------------------------------------------------
(* C4 *)

\* the file references the document declares, as (process id, uri)
DeclaredReferences(steps, list) ==
    UNION { { <<extract_process_id(steps[s].name), u.uri>> :
                u \in {(IF list = "input_list" THEN steps[s].input_list
                        ELSE steps[s].output_list)[k] :
                          k \in 1..Len(IF list = "input_list" THEN steps[s].input_list
                                       ELSE steps[s].output_list)} } :
            s \in 1..Len(steps) }

Unresolved(uri) == Unquote(UrlPath(uri)) \notin DOMAIN env.fs

Submitted(kind, ref) ==
    \E i \in 1..Len(requests) :
        /\ requests[i].kind = kind
        /\ requests[i].body.process_execution_id = ref[1]
        /\ requests[i].body.filename = ref[2]

\* every submission other than those of unresolved references succeeded
OthersSucceeded ==
    \A i \in 1..Len(requests) :
        requests[i].status # HttpOk =>
            /\ requests[i].kind \in {"input_file", "output_file"}
            /\ Unresolved(requests[i].body.filename)

\* get_provenance_data has returned in this run
ProvenanceExtracted ==
    \/ pc \in {"input_files", "output_files", "done"}
    \/ /\ pc = "returned"
       /\ requests[Len(requests)].kind \in {"input_file", "output_file"}

\* C4: a reference that resolves to neither a file nor a directory is not
\* fatal: extraction gives it a record with no fingerprint, and in a run where
\* all other submissions succeed every other declared input-file and
\* output-file reference is still submitted.
C4_UnresolvedNotFatal ==
    /\ ProvenanceExtracted
       => \A i \in 1..Len(fileInputs \o fileOutputs) :
             Unresolved((fileInputs \o fileOutputs)[i].filename)
                <=> (fileInputs \o fileOutputs)[i].xxhash128 = NoneStr
    /\ (pc \in {"done", "returned"} /\ OthersSucceeded)
       => /\ \A ref \in DeclaredReferences(env.steps, "input_list") :
                ~Unresolved(ref[2]) => Submitted("input_file", ref)
          /\ \A ref \in DeclaredReferences(env.steps, "output_list") :
                ~Unresolved(ref[2]) => Submitted("output_file", ref)

\* the part of C4 the code keeps: provenance extraction itself goes on, with
\* a record without fingerprint for each unresolved reference
C4_ExtractionContinues ==
    ProvenanceExtracted =>
        /\ Len(fileInputs) = SumLen(env.steps, "input_list")
        /\ Len(fileOutputs) = SumLen(env.steps, "output_list")
        /\ \A i \in 1..Len(fileInputs \o fileOutputs) :
             Unresolved((fileInputs \o fileOutputs)[i].filename)
                <=> (fileInputs \o fileOutputs)[i].xxhash128 = NoneStr

----------------------------------------------------------------------------
(* The routes of the storage API and their answers, src/api/main.py:172-264 *)

HttpNotFound == 404
HttpMethodNotAllowed == 405

\* the routes a decorator registered; line 202 builds the decorator for
\* DELETE /processes/{process_id} and drops it, so that route is not one
Routes ==
    { <<"POST", "/workflows/">>,
      <<"GET", "/workflows/{execution_id}">>,
      <<"POST", "/processes/">>,
      <<"GET", "/processes/{process_id}">>,
      <<"POST", "/parameters/">>,
      <<"GET", "/parameters/{process_id}">>,
      <<"DELETE", "/parameters/{process_id}">>,
      <<"POST", "/input_files/">>,
      <<"GET", "/input_files/{process_id}">>,
      <<"DELETE", "/input_files/{process_id}">>,
      <<"POST", "/output_files/">>,
      <<"GET", "/output_files/{process_id}">>,
      <<"DELETE", "/output_files/{process_id}">> }

Reply(status, body, store) == [status |-> status, body |-> body, db |-> store]

Detail(text) == [detail |-> text]

\* a Numeric column read back into a float field of the response
FloatOfNumeric(v) == IF v = None THEN None ELSE IF "m" \in DOMAIN v THEN RatNorm(v) ELSE v

\* a Numeric column read back into an int field of the response
IntOfNumeric(v) == v

\* WorkflowExecutionResponse built from the attributes of a stored row
WorkflowExecutionResponse(row) ==
    [ id |-> row.id,
      start_time |-> FloatOfNumeric(row.start_time),
      duration |-> FloatOfNumeric(row.duration),
      final_state |-> row.final_state,
      run_name |-> row.run_name,
      nextflow_version |-> row.nextflow_version,
      revision_id |-> row.revision_id ]

\* ProcessExecutionResponse built from the attributes of a stored row
ProcessExecutionResponse(row) ==
    [ id |-> row.id,
      workflow_execution_id |-> row.workflow_execution_id,
      process_name |-> row.process_name,
      module_name |-> row.module_name,
      container_name |-> row.container_name,
      final_status |-> row.final_status,
      exit_code |-> IntOfNumeric(row.exit_code),
      start_time |-> FloatOfNumeric(row.start_time),
      duration |-> FloatOfNumeric(row.duration),
      cpus_requested |-> IntOfNumeric(row.cpus_requested),
      time_requested |-> FloatOfNumeric(row.time_requested),
      storage_requested |-> FloatOfNumeric(row.storage_requested),
      memory_requested |-> FloatOfNumeric(row.memory_requested),
      realtime |-> FloatOfNumeric(row.realtime),
      queue_name |-> row.queue_name,
      percent_cpu |-> FloatOfNumeric(row.percent_cpu),
      percent_memory |-> FloatOfNumeric(row.percent_memory),
      peak_rss |-> FloatOfNumeric(row.peak_rss),
      peak_vmem |-> FloatOfNumeric(row.peak_vmem),
      read_char |-> FloatOfNumeric(row.read_char),
      write_char |-> FloatOfNumeric(row.write_char) ]

\* the answer of a POST handler: the response model of the row on success
Created(answer, body) ==
    Reply(answer.status,
          IF answer.status = HttpOk THEN body
          ELSE IF answer.status = HttpUnprocessable THEN Detail("validation error")
          ELSE Detail("Internal Server Error"),
          answer.db)

\* the answer to a method no route of the path accepts
MethodNotAllowed(store) == Reply(HttpMethodNotAllowed, Detail("Method Not Allowed"), store)

\* GET /workflows/{execution_id}
read_execution(store, execution_id) ==
    LET found == {w \in store.workflow_execution : w.id = execution_id}
    IN  IF found = {} THEN Reply(HttpNotFound, Detail("Execution not found"), store)
        ELSE Reply(HttpOk, WorkflowExecutionResponse(CHOOSE w \in found : TRUE), store)

\* GET /processes/{process_id}
read_process_execution(store, process_id) ==
    LET found == {q \in store.process_execution : q.id = process_id}
    IN  IF found = {} THEN Reply(HttpNotFound, Detail("Process execution not found"), store)
        ELSE Reply(HttpOk, ProcessExecutionResponse(CHOOSE q \in found : TRUE), store)

\* the rows of a child table that belong to a process execution
RowsOf(table, process_id) == {r \in table : r.process_execution_id = process_id}

\* lines 203-210: the function under the dropped decorator; db.delete(process)
\* cascades to parameters, input_files and output_files (lines 59-61)
delete_process_execution(store, process_id, commitFails) ==
    IF ~\E q \in store.process_execution : q.id = process_id
    THEN Reply(HttpNotFound, Detail("Process execution not found"), store)
    ELSE IF commitFails THEN Reply(HttpServerError, Detail("Internal Server Error"), store)
    ELSE Reply(HttpOk, [message |-> "Process execution records deleted successfully"],
               [store EXCEPT
                  !.process_execution = {q \in @ : q.id # process_id},
                  !.process_execution_parameter_input = @ \ RowsOf(@, process_id),
                  !.process_execution_input_file = @ \ RowsOf(@, process_id),
                  !.process_execution_output_file = @ \ RowsOf(@, process_id)])

\* ProcessExecutionParameterInputBase
ValidParameterInput(body) ==
    /\ body # NoBody
    /\ IsStr(body.process_execution_id)
    /\ IsStr(body.parameter_name)
    /\ IsStr(body.parameter_value)

\* POST /parameters/ : primary key (process_execution_id, parameter_name),
\* foreign key process_execution_id
create_parameter_input(store, body, commitFails) ==
    IF ~ValidParameterInput(body) THEN Answer(HttpUnprocessable, store)
    ELSE IF \/ commitFails
            \/ \E p \in store.process_execution_parameter_input :
                  /\ p.process_execution_id = body.process_execution_id
                  /\ p.parameter_name = body.parameter_name
            \/ ~\E q \in store.process_execution : q.id = body.process_execution_id
         THEN Answer(HttpServerError, store)
    ELSE Answer(HttpOk, [store EXCEPT !.process_execution_parameter_input = @ \cup {body}])

\* GET /parameters/{process_id}, /input_files/{process_id},
\* /output_files/{process_id}: the list of the rows, empty when there is none
ListByProcess(store, table, process_id) ==
    Reply(HttpOk, [items |-> RowsOf(store[table], process_id)], store)

get_parameters_by_process(store, process_id) ==
    ListByProcess(store, "process_execution_parameter_input", process_id)

get_input_files_by_process(store, process_id) ==
    ListByProcess(store, "process_execution_input_file", process_id)

get_output_files_by_process(store, process_id) ==
    ListByProcess(store, "process_execution_output_file", process_id)

\* DELETE /parameters/{process_id}, /input_files/{process_id},
\* /output_files/{process_id}: query(...).delete() and the fixed message
DeleteByProcess(store, table, process_id, commitFails, message) ==
    IF commitFails THEN Reply(HttpServerError, Detail("Internal Server Error"), store)
    ELSE Reply(HttpOk, [message |-> message],
               [store EXCEPT ![table] = @ \ RowsOf(@, process_id)])

delete_parameters_by_process(store, process_id, commitFails) ==
    DeleteByProcess(store, "process_execution_parameter_input", process_id, commitFails,
                    "Parameter records deleted successfully")

delete_input_files_by_process(store, process_id, commitFails) ==
    DeleteByProcess(store, "process_execution_input_file", process_id, commitFails,
                    "Input file records deleted successfully")

delete_output_files_by_process(store, process_id, commitFails) ==
    DeleteByProcess(store, "process_execution_output_file", process_id, commitFails,
                    "Output file records deleted successfully")

\* the answer of the application to a request: the handler of the route, 405
\* when the path has routes for other methods only
Dispatch(method, path, store, handled) ==
    IF <<method, path>> \in Routes THEN handled ELSE MethodNotAllowed(store)

----------------------------------------------------------------------------
(* Harness for the storage API: a client issuing requests one after another *)

ApiBco == [software_prerequisites |-> <<[name |-> T_Nextflow, version |-> <<"2", "4", ".", "0", "4">>]>>]

LogColumnsNoSession == <<L_TIMESTAMP, L_DURATION, L_RUN_NAME, L_STATUS, L_REVISION_ID, L_COMMAND>>

ExtractedWorkflow(columns, row) ==
    get_nextflow_log([returncode |-> 0, stdout |-> LogStdout(columns, <<row>>)], ApiBco)

\* workflow-execution records as log extraction produces them
ApiWorkflow1 == ExtractedWorkflow(LogColumns, LogRow1)
ApiWorkflow2 == ExtractedWorkflow(LogColumns, LogRow2)
ApiWorkflowNoId == ExtractedWorkflow(LogColumnsNoSession, LogRow1)

ApiWorkflowRecords == {ApiWorkflow1, ApiWorkflow2, ApiWorkflowNoId}

ExtractedProcess(row, workflow_id) ==
    get_process_execution_data(TraceLines(TraceColumns, <<row>>), workflow_id).value[1]

\* process-execution records as trace extraction produces them: the same
\* step hash under two workflow executions, and a row without a peak_rss
ApiProcessRecords ==
    {ExtractedProcess(row, w.id) : row \in {GoodRow1, RowNoRss}, w \in {ApiWorkflow1, ApiWorkflow2}}

ApiProcessId == ExtractedProcess(GoodRow1, ApiWorkflow1.id).id

ApiParameterRecords ==
    { [process_execution_id |-> ApiProcessId, parameter_name |-> <<"k">>, parameter_value |-> <<"1">>],
      [process_execution_id |-> ApiProcessId, parameter_name |-> <<"k">>, parameter_value |-> <<"2">>] }

\* file records as provenance extraction produces them
ApiProvenance ==
    get_provenance_data([pipeline_steps |-> <<Step1>>], FsAll, CHOOSE w \in DirWalks(FsAll) : TRUE)

ApiInputFileRecords == {ApiProvenance.inputs[i] : i \in 1..Len(ApiProvenance.inputs)}
ApiOutputFileRecords == {ApiProvenance.outputs[i] : i \in 1..Len(ApiProvenance.outputs)}

\* the identifiers asked for: two workflow executions and a process execution
ApiIds == {ApiWorkflow1.id, ApiWorkflow2.id, ApiProcessId}

PostRequest(body, commitFails) == [body |-> body, commitFails |-> commitFails]
GetRequest(id) == [id |-> id]
DeleteRequest(id, commitFails) == [id |-> id, commitFails |-> commitFails]

InitApi ==
    /\ op = "init"
    /\ arg = <<>>
    /\ res = None
    /\ pc = "idle"
    /\ env = <<>>
    /\ requests = <<>>
    /\ wfData = None
    /\ procData = <<>>
    /\ fileInputs = <<>>
    /\ fileOutputs = <<>>
    /\ idx = 0
    /\ db = EmptyDb

\* one request and its answer; idx counts the requests issued
ApiCall(name, request, reply) ==
    /\ idx < MaxApiCalls
    /\ op' = name
    /\ arg' = request
    /\ res' = [status |-> reply.status, body |-> reply.body]
    /\ db' = reply.db
    /\ idx' = idx + 1
    /\ UNCHANGED <<pc, env, requests, wfData, procData, fileInputs, fileOutputs>>

ApiPostWorkflow ==
    \E body \in ApiWorkflowRecords, commitFails \in BOOLEAN :
        ApiCall("POST /workflows/", PostRequest(body, commitFails),
                Dispatch("POST", "/workflows/", db,
                         Created(create_execution(db, body, commitFails),
                                 WorkflowExecutionResponse(body))))

ApiGetWorkflow ==
    \E id \in ApiIds :
        ApiCall("GET /workflows/{execution_id}", GetRequest(id),
                Dispatch("GET", "/workflows/{execution_id}", db, read_execution(db, id)))

\* no function handles DELETE on this path
ApiDeleteWorkflow ==
    \E id \in ApiIds :
        ApiCall("DELETE /workflows/{execution_id}", GetRequest(id),
                Dispatch("DELETE", "/workflows/{execution_id}", db,
                         Reply(HttpNotFound, Detail("Not Found"), db)))

ApiPostProcess ==
    \E body \in ApiProcessRecords, commitFails \in BOOLEAN :
        ApiCall("POST /processes/", PostRequest(body, commitFails),
                Dispatch("POST", "/processes/", db,
                         Created(create_process_execution(db, body, commitFails),
                                 ProcessExecutionResponse(body))))

ApiGetProcess ==
    \E id \in ApiIds :
        ApiCall("GET /processes/{process_id}", GetRequest(id),
                Dispatch("GET", "/processes/{process_id}", db, read_process_execution(db, id)))

ApiDeleteProcess ==
    \E id \in ApiIds, commitFails \in BOOLEAN :
        ApiCall("DELETE /processes/{process_id}", DeleteRequest(id, commitFails),
                Dispatch("DELETE", "/processes/{process_id}", db,
                         delete_process_execution(db, id, commitFails)))

ApiPostParameter ==
    \E body \in ApiParameterRecords, commitFails \in BOOLEAN :
        ApiCall("POST /parameters/", PostRequest(body, commitFails),
                Dispatch("POST", "/parameters/", db,
                         Created(create_parameter_input(db, body, commitFails), body)))

ApiGetParameters ==
    \E id \in ApiIds :
        ApiCall("GET /parameters/{process_id}", GetRequest(id),
                Dispatch("GET", "/parameters/{process_id}", db, get_parameters_by_process(db, id)))

ApiDeleteParameters ==
    \E id \in ApiIds, commitFails \in BOOLEAN :
        ApiCall("DELETE /parameters/{process_id}", DeleteRequest(id, commitFails),
                Dispatch("DELETE", "/parameters/{process_id}", db,
                         delete_parameters_by_process(db, id, commitFails)))

ApiPostInputFile ==
    \E body \in ApiInputFileRecords, commitFails \in BOOLEAN :
        ApiCall("POST /input_files/", PostRequest(body, commitFails),
                Dispatch("POST", "/input_files/", db,
                         Created(create_input_file(db, body, commitFails), body)))

ApiGetInputFiles ==
    \E id \in ApiIds :
        ApiCall("GET /input_files/{process_id}", GetRequest(id),
                Dispatch("GET", "/input_files/{process_id}", db, get_input_files_by_process(db, id)))

ApiDeleteInputFiles ==
    \E id \in ApiIds, commitFails \in BOOLEAN :
        ApiCall("DELETE /input_files/{process_id}", DeleteRequest(id, commitFails),
                Dispatch("DELETE", "/input_files/{process_id}", db,
                         delete_input_files_by_process(db, id, commitFails)))

ApiPostOutputFile ==
    \E body \in ApiOutputFileRecords, commitFails \in BOOLEAN :
        ApiCall("POST /output_files/", PostRequest(body, commitFails),
                Dispatch("POST", "/output_files/", db,
                         Created(create_output_file(db, body, commitFails), body)))

ApiGetOutputFiles ==
    \E id \in ApiIds :
        ApiCall("GET /output_files/{process_id}", GetRequest(id),
                Dispatch("GET", "/output_files/{process_id}", db, get_output_files_by_process(db, id)))

ApiDeleteOutputFiles ==
    \E id \in ApiIds, commitFails \in BOOLEAN :
        ApiCall("DELETE /output_files/{process_id}", DeleteRequest(id, commitFails),
                Dispatch("DELETE", "/output_files/{process_id}", db,
                         delete_output_files_by_process(db, id, commitFails)))

NextApi ==
    \/ ApiPostWorkflow
    \/ ApiGetWorkflow
    \/ ApiDeleteWorkflow
    \/ ApiPostProcess
    \/ ApiGetProcess
    \/ ApiDeleteProcess
    \/ ApiPostParameter
    \/ ApiGetParameters
    \/ ApiDeleteParameters
    \/ ApiPostInputFile
    \/ ApiGetInputFiles
    \/ ApiDeleteInputFiles
    \/ ApiPostOutputFile
    \/ ApiGetOutputFiles
    \/ ApiDeleteOutputFiles

SpecApi == InitApi /\ [][NextApi]_vars

----------------------------------------------------------------------------
(* C11 *)

WorkflowStored(store, id) == \E w \in store.workflow_execution : w.id = id
ProcessStored(store, id) == \E q \in store.process_execution : q.id = id

\* C11: every workflow-execution and process-execution record that extraction
\* produces round-trips through the storage API: create(record) succeeds
\* (the identifier is new, the owner of a process execution is stored and the
\* database is reachable) and a following read(id) returns the submitted
\* record field by field, also when peak_rss or another memory-derived field
\* is "no value".
C11_RoundTrip ==
    [][ /\ (/\ op' = "POST /workflows/"
            /\ arg'.body.id # NoneStr
            /\ ~arg'.commitFails
            /\ ~WorkflowStored(db, arg'.body.id))
           => /\ res'.status = HttpOk
              /\ read_execution(db', arg'.body.id).status = HttpOk
              /\ read_execution(db', arg'.body.id).body = arg'.body
        /\ (/\ op' = "POST /processes/"
            /\ arg'.body.id # NoneStr
            /\ ~arg'.commitFails
            /\ ~ProcessStored(db, arg'.body.id)
            /\ WorkflowStored(db, arg'.body.workflow_execution_id))
           => /\ res'.status = HttpOk
              /\ read_process_execution(db', arg'.body.id).status = HttpOk
              /\ read_process_execution(db', arg'.body.id).body = arg'.body
      ]_vars

----------------------------------------------------------------------------
(* C12 *)

OwnedProcesses(store, workflow_id) ==
    {q \in store.process_execution : q.workflow_execution_id = workflow_id}

ChildRows(store) ==
    store.process_execution_parameter_input
    \cup store.process_execution_input_file
    \cup store.process_execution_output_file

\* every stored process execution has its workflow execution stored and
\* every stored parameter or file record has its process execution stored
NoDanglingReference(store) ==
    /\ \A q \in store.process_execution : WorkflowStored(store, q.workflow_execution_id)
    /\ \A r \in ChildRows(store) : ProcessStored(store, r.process_execution_id)

\* C12: ownership is composition: once a workflow execution has been deleted
\* neither it nor a process execution it owns is stored; once a process
\* execution has been deleted neither it nor a parameter, input-file or
\* output-file record of it is stored; and at all times no stored record
\* references an owner that is not stored.
C12_OwnershipComposition ==
    /\ op = "DELETE /workflows/{execution_id}"
       => /\ ~WorkflowStored(db, arg.id)
          /\ OwnedProcesses(db, arg.id) = {}
    /\ (op = "DELETE /processes/{process_id}" /\ ~arg.commitFails)
       => /\ ~ProcessStored(db, arg.id)
          /\ \A r \in ChildRows(db) : r.process_execution_id # arg.id
    /\ NoDanglingReference(db)

\* the part of C12 that the foreign keys enforce
C12_ReferencesResolve == NoDanglingReference(db)

----------------------------------------------------------------------------
(* C13 *)

EntityKinds == {"workflows", "processes", "parameters", "input_files", "output_files"}

ItemPath(kind) ==
    IF kind = "workflows" THEN "/workflows/{execution_id}" ELSE "/" \o kind \o "/{process_id}"

GetOp(kind) == "GET " \o ItemPath(kind)
DeleteOp(kind) == "DELETE " \o ItemPath(kind)

\* something of the kind is stored under the identifier
StoredUnder(kind, store, id) ==
    CASE kind = "workflows" -> WorkflowStored(store, id)
      [] kind = "processes" -> ProcessStored(store, id)
      [] kind = "parameters" -> RowsOf(store.process_execution_parameter_input, id) # {}
      [] kind = "input_files" -> RowsOf(store.process_execution_input_file, id) # {}
      [] kind = "output_files" -> RowsOf(store.process_execution_output_file, id) # {}

\* the answer of the application to a read of the kind
ReadAnswer(kind, store, id) ==
    CASE kind = "workflows" -> Dispatch("GET", ItemPath(kind), store, read_execution(store, id))
      [] kind = "processes" -> Dispatch("GET", ItemPath(kind), store, read_process_execution(store, id))
      [] kind = "parameters" -> Dispatch("GET", ItemPath(kind), store, get_parameters_by_process(store, id))
      [] kind = "input_files" -> Dispatch("GET", ItemPath(kind), store, get_input_files_by_process(store, id))
      [] kind = "output_files" -> Dispatch("GET", ItemPath(kind), store, get_output_files_by_process(store, id))

CommitFailed(request) == "commitFails" \in DOMAIN request /\ request.commitFails

\* C13: for every entity kind, a read or a delete of an identifier under
\* which nothing is stored is answered NotFound and changes nothing, and a
\* delete of a stored identifier (the database being reachable) is answered
\* ok, after which a read of that identifier is answered NotFound.
C13_NotFoundAndDelete ==
    [][ \A kind \in EntityKinds :
          /\ (op' \in {GetOp(kind), DeleteOp(kind)} /\ ~StoredUnder(kind, db, arg'.id))
             => /\ res'.status = HttpNotFound
                /\ db' = db
          /\ (op' = DeleteOp(kind) /\ StoredUnder(kind, db, arg'.id) /\ ~CommitFailed(arg'))
             => /\ res'.status = HttpOk
                /\ ReadAnswer(kind, db', arg'.id).status = HttpNotFound
      ]_vars

\* the part of C13 the two single-record reads satisfy
C13_ReadNotFound ==
    [][ \A kind \in {"workflows", "processes"} :
          (op' = GetOp(kind) /\ ~StoredUnder(kind, db, arg'.id))
          => /\ res'.status = HttpNotFound
             /\ db' = db
      ]_vars

----------------------------------------------------------------------------
(* C14 *)

\* a process execution with the step hash is stored under the workflow execution
StoredStep(store, workflow_id, hash) ==
    \E q \in store.process_execution : q.workflow_execution_id = workflow_id /\ q.id = hash

OnePerWorkflowAndHash(store) ==
    \A q1, q2 \in store.process_execution :
        (q1.workflow_execution_id = q2.workflow_execution_id /\ q1.id = q2.id) => q1 = q2

\* C14: the store holds at most one process execution per (workflow
\* execution, step hash), and the create of a process execution (a record the
\* schema accepts, its owner stored, the database reachable) fails, leaving
\* the store unchanged, exactly when that step hash is already stored under
\* the same workflow execution; under another workflow execution it is stored.
C14_IdentityWithinWorkflow ==
    [][ /\ OnePerWorkflowAndHash(db')
        /\ (/\ op' = "POST /processes/"
            /\ ValidProcessExecutionCreate(arg'.body)
            /\ ~arg'.commitFails
            /\ WorkflowStored(db, arg'.body.workflow_execution_id))
           => ((res'.status # HttpOk /\ db' = db)
               <=> StoredStep(db, arg'.body.workflow_execution_id, arg'.body.id))
      ]_vars

\* the part of C14 that holds: never two stored process executions with the
\* same owner and step hash
C14_OnePerWorkflowAndHash == OnePerWorkflowAndHash(db)

----------------------------------------------------------------------------
(* C15 *)

SubmissionKey(kind, key) == [kind |-> kind, key |-> key]

\* what identifies a submission: the step hash of a process record, the
\* process and the URI of a file record
RequestKey(request) ==
    CASE request.kind = "workflow" -> SubmissionKey("workflow", <<>>)
      [] request.kind = "process" -> SubmissionKey("process", <<request.body.id>>)
      [] OTHER -> SubmissionKey(request.kind,
                                <<request.body.process_execution_id, request.body.filename>>)

\* the declared references of all steps in step order, as file submissions
FileSequence(steps, list, kind) ==
    Concat([s \in 1..Len(steps) |->
              [k \in 1..Len(steps[s][list]) |->
                  SubmissionKey(kind, <<extract_process_id(steps[s].name), steps[s][list][k].uri>>)]])

\* the fixed sequence of a run: the workflow record, the process records in
\* trace-file order, the input-file records, the output-file records
FixedSequence ==
    <<SubmissionKey("workflow", <<>>)>>
    \o [i \in 1..Len(env.rows) |-> SubmissionKey("process", <<env.rows[i][K_hash]>>)]
    \o FileSequence(env.steps, "input_list", "input_file")
    \o FileSequence(env.steps, "output_list", "output_file")

IsPrefix(p, q) == Len(p) <= Len(q) /\ SubSeq(q, 1, Len(p)) = p

\* C15: in every run of submit, complete or stopped early, the submissions
\* issued are a prefix of the fixed sequence [workflow record; process
\* records in trace-file order; input-file records of all steps in step
\* order; output-file records of all steps in step order], and a submission
\* is issued only after every earlier one has succeeded.
C15_PrefixOfFixedSequence ==
    /\ IsPrefix([i \in 1..Len(requests) |-> RequestKey(requests[i])], FixedSequence)
    /\ \A i \in 1..(Len(requests) - 1) : requests[i].status = HttpOk

C15_Witness ==
    /\ pc = "returned"
    /\ requests[Len(requests)].kind = "input_file"
    /\ Len(env.rows) >= 2
    /\ Len(env.steps) = 2
    /\ Len(requests) = 1 + Len(env.rows) + 2
    /\ Len(FixedSequence) > Len(requests)

====
